---------------------------- MODULE Spec2Model ----------------------------
(***************************************************************************)
(* Model of the per-device signal-processing pipeline of the smartphone    *)
(* battery backend: the Hampel filter and the SoH / EFC estimator          *)
(* (src/core/soh_cycles.py), the per-device z-score and the window builder *)
(* (src/core/feature_engineering.py), the throughput calculator            *)
(* (src/core/throughput_energy.py) and the RUL estimator                   *)
(* (src/api/controller/prediction_controller.py).                          *)
(*                                                                         *)
(* Every stage is a pure function of a data frame.  A stage is modelled as *)
(* an operator; a specification draws the stage's arguments in its Init    *)
(* and has one action, the call, which stores the returned value.          *)
(*                                                                         *)
(* Numbers.  A float is modelled as an exact rational <<n, d>> in lowest   *)
(* terms with d > 0; the three non-finite floats are NaN = <<0, 0>>,       *)
(* +inf = <<1, 0>> and -inf = <<-1, 0>>.  The SoH / EFC estimator, the     *)
(* window builder and the throughput calculator are computed exactly; the  *)
(* z-score, whose zero test compares a computed standard deviation with 0, *)
(* and the RUL estimator round every step to a binary float (RoundFloat).  *)
(* Signed zero is not modelled.                                            *)
(***************************************************************************)
EXTENDS Integers, Sequences, FiniteSets, TLC

VARIABLES
  pc,          \* the specification's call: "call" before, "return" after
  hampel_in,   \* arguments of _hampel: [s, k, nsigma]
  hampel_out,  \* the series _hampel returned
  soh_in,      \* arguments of calculate_soh_cycles
  soh_out,     \* the frame calculate_soh_cycles returned
  z_in,        \* arguments of add_per_device_zscore
  z_out,       \* the frame add_per_device_zscore returned
  win_in,      \* arguments of build_windows
  win_out,     \* the arrays build_windows returned
  rul_in,      \* soh_pred and the model configuration of estimate_rul_from_soh
  rul_out,     \* the dictionary estimate_rul_from_soh returned
  thr_in,      \* the frame given to calculate_throughput
  thr_out,     \* the frame calculate_throughput returned
  bot_in,      \* the frame given to calculate_throughput_energy_and_bot
  bot_out,     \* the frame calculate_throughput_energy_and_bot returned
  aging_in,    \* the table given to add_aging_features
  aging_out,   \* the table add_aging_features returned
  feat_in,     \* the raw frame given to make_lstm_features
  feat_out,    \* the table make_lstm_features returned
  sf_in,       \* arguments of safe_float: [x, default]
  sf_out       \* the value safe_float returned

hampel_vars == <<hampel_in, hampel_out>>
soh_vars == <<soh_in, soh_out>>
z_vars == <<z_in, z_out>>
win_vars == <<win_in, win_out>>
rul_vars == <<rul_in, rul_out>>
thr_vars == <<thr_in, thr_out>>
bot_vars == <<bot_in, bot_out>>
aging_vars == <<aging_in, aging_out>>
feat_vars == <<feat_in, feat_out>>
sf_vars == <<sf_in, sf_out>>

vars ==
  <<pc, hampel_vars, soh_vars, z_vars, win_vars, rul_vars, thr_vars, bot_vars,
    aging_vars, feat_vars, sf_vars>>

\* a specification calls one stage; the variables of the other stages are
\* empty and stay so
NotCalled == <<>>

IdleExcept(stage) ==
  /\ IF stage = "hampel" THEN TRUE
     ELSE hampel_in = NotCalled /\ hampel_out = NotCalled
  /\ IF stage = "soh" THEN TRUE
     ELSE soh_in = NotCalled /\ soh_out = NotCalled
  /\ IF stage = "zscore" THEN TRUE
     ELSE z_in = NotCalled /\ z_out = NotCalled
  /\ IF stage = "windows" THEN TRUE
     ELSE win_in = NotCalled /\ win_out = NotCalled
  /\ IF stage = "rul" THEN TRUE
     ELSE rul_in = NotCalled /\ rul_out = NotCalled
  /\ IF stage = "throughput" THEN TRUE
     ELSE thr_in = NotCalled /\ thr_out = NotCalled
  /\ IF stage = "bot" THEN TRUE
     ELSE bot_in = NotCalled /\ bot_out = NotCalled
  /\ IF stage = "aging" THEN TRUE
     ELSE aging_in = NotCalled /\ aging_out = NotCalled
  /\ IF stage = "features" THEN TRUE
     ELSE feat_in = NotCalled /\ feat_out = NotCalled
  /\ IF stage = "safe_float" THEN TRUE
     ELSE sf_in = NotCalled /\ sf_out = NotCalled

UnchangedExcept(stage) ==
  /\ IF stage = "hampel" THEN TRUE ELSE UNCHANGED hampel_vars
  /\ IF stage = "soh" THEN TRUE ELSE UNCHANGED soh_vars
  /\ IF stage = "zscore" THEN TRUE ELSE UNCHANGED z_vars
  /\ IF stage = "windows" THEN TRUE ELSE UNCHANGED win_vars
  /\ IF stage = "rul" THEN TRUE ELSE UNCHANGED rul_vars
  /\ IF stage = "throughput" THEN TRUE ELSE UNCHANGED thr_vars
  /\ IF stage = "bot" THEN TRUE ELSE UNCHANGED bot_vars
  /\ IF stage = "aging" THEN TRUE ELSE UNCHANGED aging_vars
  /\ IF stage = "features" THEN TRUE ELSE UNCHANGED feat_vars
  /\ IF stage = "safe_float" THEN TRUE ELSE UNCHANGED sf_vars

-----------------------------------------------------------------------------
(* Floats as exact rationals *)

NaN  == <<0, 0>>
PInf == <<1, 0>>
NInf == <<-1, 0>>

Abs(i) == IF i < 0 THEN -i ELSE i
Sign(i) == IF i < 0 THEN -1 ELSE IF i > 0 THEN 1 ELSE 0
Min2(a, b) == IF a <= b THEN a ELSE b
Max2(a, b) == IF a >= b THEN a ELSE b

RECURSIVE GCD(_, _)
GCD(a, b) == IF b = 0 THEN a ELSE GCD(b, a % b)

\* n / d as a float: lowest terms, positive denominator; x/0 is +-inf, 0/0 NaN
Rat(n, d) ==
  IF d = 0 THEN <<Sign(n), 0>>
  ELSE LET g == GCD(Abs(n), Abs(d))
       IN  <<Sign(d) * (n \div g), Abs(d) \div g>>

R(i) == <<i, 1>>
IsNaN(x) == x = NaN
NotNa(x) == x # NaN
IsFinite(x) == x[2] # 0

RNeg(x) == <<-x[1], x[2]>>
RAbs(x) == <<Abs(x[1]), x[2]>>

RAdd(x, y) ==
  IF IsNaN(x) \/ IsNaN(y) THEN NaN
  ELSE IF ~IsFinite(x) THEN (IF ~IsFinite(y) /\ y # x THEN NaN ELSE x)
  ELSE IF ~IsFinite(y) THEN y
  ELSE LET g == GCD(x[2], y[2])
       IN  Rat(x[1] * (y[2] \div g) + y[1] * (x[2] \div g), (x[2] \div g) * y[2])

RSub(x, y) == RAdd(x, RNeg(y))

RMul(x, y) ==
  IF IsNaN(x) \/ IsNaN(y) THEN NaN
  ELSE IF ~IsFinite(x) \/ ~IsFinite(y)
         THEN <<Sign(x[1]) * Sign(y[1]), 0>>     \* inf * 0 is NaN = <<0, 0>>
  ELSE Rat(x[1] * y[1], x[2] * y[2])

\* IEEE division: x/0 is +-inf by the sign of x, 0/0 and inf/inf are NaN
RDiv(x, y) ==
  IF IsNaN(x) \/ IsNaN(y) THEN NaN
  ELSE IF ~IsFinite(y) THEN (IF IsFinite(x) THEN R(0) ELSE NaN)
  ELSE IF ~IsFinite(x) THEN (IF y[1] < 0 THEN RNeg(x) ELSE x)
  ELSE Rat(x[1] * y[2], x[2] * y[1])

\* x < y; every comparison with NaN is false
RLt(x, y) ==
  IF IsNaN(x) \/ IsNaN(y) THEN FALSE
  ELSE IF x = y THEN FALSE
  ELSE IF x = NInf \/ y = PInf THEN TRUE
  ELSE IF x = PInf \/ y = NInf THEN FALSE
  ELSE x[1] * y[2] < y[1] * x[2]

RGt(x, y) == RLt(y, x)
RLe(x, y) == NotNa(x) /\ NotNa(y) /\ ~RLt(y, x)
RGe(x, y) == RLe(y, x)

-----------------------------------------------------------------------------
(* Series helpers (pandas / numpy semantics) *)

Range(f) == {f[i] : i \in DOMAIN f}

\* F(v) with v evaluated once and bound to x: the assignment x = v of the
\* source followed by the rest of the function body F
Let(v, F(_)) == CHOOSE r \in {F(x) : x \in {v}} : TRUE

\* the function f over 1..n as a sequence whose elements are evaluated once
AsSeq(f) == f \o <<>>

\* the positions of q that hold a value, in order
RECURSIVE ValidIdx(_, _)
ValidIdx(q, idx) ==
  IF idx = <<>> THEN <<>>
  ELSE IF NotNa(q[Head(idx)]) THEN <<Head(idx)>> \o ValidIdx(q, Tail(idx))
  ELSE ValidIdx(q, Tail(idx))

Idx(lo, hi) ==
  AsSeq([j \in 1..(IF hi >= lo THEN hi - lo + 1 ELSE 0) |-> lo + j - 1])

\* Series.dropna() restricted to the positions lo..hi
Valid(q, lo, hi) ==
  Let(ValidIdx(q, Idx(lo, hi)), LAMBDA ix : AsSeq([j \in 1..Len(ix) |-> q[ix[j]]]))

DropNa(q) == Valid(q, 1, Len(q))

RECURSIVE Insert(_, _)
Insert(x, srt) ==
  IF srt = <<>> THEN <<x>>
  ELSE IF RLe(x, Head(srt)) THEN <<x>> \o srt
  ELSE <<Head(srt)>> \o Insert(x, Tail(srt))

RECURSIVE SortFrom(_, _)
SortFrom(q, srt) ==
  IF q = <<>> THEN srt ELSE SortFrom(Tail(q), Insert(Head(q), srt))

\* the values of q in ascending order (q holds no NaN)
SortR(q) == SortFrom(q, <<>>)

MedianSorted(srt) ==
  IF Len(srt) = 0 THEN NaN
  ELSE IF Len(srt) % 2 = 1 THEN srt[(Len(srt) + 1) \div 2]
  ELSE RDiv(RAdd(srt[Len(srt) \div 2], srt[Len(srt) \div 2 + 1]), R(2))

\* median of the values of v (v holds no NaN); NaN when v is empty
Median(v) == Let(SortR(v), LAMBDA srt : MedianSorted(srt))

-----------------------------------------------------------------------------
(* _hampel, src/core/soh_cycles.py *)

\* the statistic of one rolling window: NaN under min_periods values
WindowMedian(v, minp) == IF Len(v) < minp THEN NaN ELSE Median(v)

\* Series.rolling(window = 2k+1, center = True, min_periods = minp).median():
\* the window of sample i is i-k .. i+k cut to the series; the statistic is
\* NaN when the window holds fewer than minp values
RollingMedianCentered(q, k, minp) ==
  AsSeq([i \in 1..Len(q) |->
     Let(Valid(q, Max2(1, i - k), Min2(Len(q), i + k)),
         LAMBDA v : WindowMedian(v, minp))])

HampelMinPeriods == 3

\* 1.4826, the factor from MAD to a normal-consistent scale
MadScale == Rat(7413, 5000)

\* med = s.rolling(window=2*k+1, center=True, min_periods=3).median()
hampel_med(q, k) == RollingMedianCentered(q, k, HampelMinPeriods)

\* (s - med).abs()
hampel_dev(q, k) ==
  Let(hampel_med(q, k), LAMBDA med :
    AsSeq([i \in 1..Len(q) |-> RAbs(RSub(q[i], med[i]))]))

\* the deviations of the window's samples from the median of that one window
hampel_mad_own_median(q, k) ==
  Let(hampel_med(q, k), LAMBDA med :
    AsSeq([i \in 1..Len(q) |->
      WindowMedian(
        Valid(AsSeq([j \in 1..Len(q) |-> RAbs(RSub(q[j], med[i]))]),
              Max2(1, i - k), Min2(Len(q), i + k)),
        HampelMinPeriods)]))

\* mad = (s - med).abs().rolling(window=2*k+1, center=True, min_periods=3).median()
hampel_mad(q, k) ==
  Let(hampel_dev(q, k), LAMBDA dev :
    RollingMedianCentered(dev, k, HampelMinPeriods))

\* thresh = nsigma * 1.4826 * mad
hampel_thresh(q, k, nsigma) ==
  Let(hampel_mad(q, k), LAMBDA mad :
    AsSeq([i \in 1..Len(q) |-> RMul(RMul(nsigma, MadScale), mad[i])]))

\* the same comparison written as "not <=": it differs where thresh is NaN
hampel_outlier_notle(q, k, nsigma) ==
  Let(hampel_dev(q, k), LAMBDA dev :
  Let(hampel_thresh(q, k, nsigma), LAMBDA thresh :
    AsSeq([i \in 1..Len(q) |-> NotNa(q[i]) /\ ~RLe(dev[i], thresh[i])])))

\* the comparison with >= : a sample equal to its median is marked when mad = 0
hampel_outlier_ge(q, k, nsigma) ==
  Let(hampel_dev(q, k), LAMBDA dev :
  Let(hampel_thresh(q, k, nsigma), LAMBDA thresh :
    AsSeq([i \in 1..Len(q) |-> RGe(dev[i], thresh[i])])))

\* outlier = (s - med).abs() > thresh
hampel_outlier(q, k, nsigma) ==
  Let(hampel_dev(q, k), LAMBDA dev :
  Let(hampel_thresh(q, k, nsigma), LAMBDA thresh :
    AsSeq([i \in 1..Len(q) |-> RGt(dev[i], thresh[i])])))

\* outliers dropped from the series instead of being replaced
hampel_drop(q, k, nsigma) ==
  Let(hampel_outlier(q, k, nsigma), LAMBDA outlier :
    DropNa(AsSeq([i \in 1..Len(q) |-> IF outlier[i] THEN NaN ELSE q[i]])))

\* s[outlier] = np.nan; return s
hampel(q, k, nsigma) ==
  Let(hampel_outlier(q, k, nsigma), LAMBDA outlier :
    AsSeq([i \in 1..Len(q) |-> IF outlier[i] THEN NaN ELSE q[i]]))

-----------------------------------------------------------------------------
(* calculate_soh_cycles, src/core/soh_cycles.py                            *)
(* A data frame is a sequence of rows; a row is a record of its columns.   *)
(* Timestamps are seconds, NaN standing for NaT.                           *)

\* BATTERY_CAPACITY_SPEC (src/core/config.py), restricted to one listed device
ListedDevice == "V2050-b202c09b34bc8540"
UnlistedDevice == "unlisted-device"
BATTERY_CAPACITY_SPEC == [d \in {ListedDevice} |-> 4000]

\* the order of the device ids under sort_values
DeviceOrder(d) == IF d = ListedDevice THEN 1 ELSE 2

\* None, the absent nominal capacity, is represented like a missing value
None == NaN
CapacityGet(capacity_map, model) ==
  IF model \in DOMAIN capacity_map THEN R(capacity_map[model]) ELSE None

Col(df, c) == AsSeq([i \in 1..Len(df) |-> df[i][c]])

\* sort key (device_id, created_at), NaT last
RowLt(a, b) ==
  \/ DeviceOrder(a.device_id) < DeviceOrder(b.device_id)
  \/ /\ a.device_id = b.device_id
     /\ NotNa(a.created_at)
     /\ (IsNaN(b.created_at) \/ RLt(a.created_at, b.created_at))

\* x placed behind every row that does not sort after it
RECURSIVE InsertRow(_, _)
InsertRow(x, srt) ==
  IF srt = <<>> THEN <<x>>
  ELSE IF RowLt(x, Head(srt)) THEN <<x>> \o srt
  ELSE <<Head(srt)>> \o InsertRow(x, Tail(srt))

RECURSIVE SortRowsFrom(_, _)
SortRowsFrom(df, srt) ==
  IF df = <<>> THEN srt ELSE SortRowsFrom(Tail(df), InsertRow(Head(df), srt))

\* df.sort_values([DEVICE_COL, TIMESTAMP_COL]).reset_index(drop=True): stable
SortRows(df) == SortRowsFrom(df, <<>>)

MaxGapSeconds == 3600

\* a gap brought into [0, 3600] instead
delta_t_clamped(d) ==
  IF IsNaN(d) THEN R(0)
  ELSE IF RLt(d, R(0)) THEN R(0)
  ELSE IF RGt(d, R(MaxGapSeconds)) THEN R(MaxGapSeconds)
  ELSE d

\* fillna(0), then < 0 -> 0, then > 3600 -> 0
delta_t_reset(d) ==
  IF IsNaN(d) THEN R(0)
  ELSE IF RLt(d, R(0)) THEN R(0)
  ELSE IF RGt(d, R(MaxGapSeconds)) THEN R(0)
  ELSE d

\* lines 56-59: per-device diff of the timestamps, NaN -> 0, < 0 -> 0, > 3600 -> 0
delta_t_s(df) ==
  AsSeq([i \in 1..Len(df) |->
    delta_t_reset(IF i = 1 \/ df[i - 1].device_id # df[i].device_id THEN NaN
                  ELSE RSub(df[i].created_at, df[i - 1].created_at))])

AnyNotNa(q) == \E i \in 1..Len(q) : NotNa(q[i])
AllNa(q) == \A i \in 1..Len(q) : IsNaN(q[i])

\* Series.cumsum(): NaN is skipped and stays NaN at its position
RECURSIVE CumSumFrom(_, _, _)
CumSumFrom(q, acc, out) ==
  IF q = <<>> THEN out
  ELSE IF IsNaN(Head(q)) THEN CumSumFrom(Tail(q), acc, Append(out, NaN))
  ELSE Let(RAdd(acc, Head(q)), LAMBDA a : CumSumFrom(Tail(q), a, Append(out, a)))

CumSum(q) == CumSumFrom(q, R(0), <<>>)

\* Series.min() / Series.max(): NaN skipped, NaN when no value is left
SeriesMin(q) ==
  Let(SortR(DropNa(q)), LAMBDA v : IF v = <<>> THEN NaN ELSE v[1])
SeriesMax(q) ==
  Let(SortR(DropNa(q)), LAMBDA v : IF v = <<>> THEN NaN ELSE v[Len(v)])

\* Series.ffill()
RECURSIVE FFillFrom(_, _, _)
FFillFrom(q, last, out) ==
  IF q = <<>> THEN out
  ELSE IF IsNaN(Head(q)) THEN FFillFrom(Tail(q), last, Append(out, last))
  ELSE FFillFrom(Tail(q), Head(q), Append(out, Head(q)))

FFill(q) == FFillFrom(q, NaN, <<>>)

\* linear interpolation at position (n-1) * pn/pd of the sorted values
PercentileSorted(srt, pn, pd) ==
  IF Len(srt) = 0 THEN NaN
  ELSE IF ((Len(srt) - 1) * pn) % pd = 0 THEN srt[((Len(srt) - 1) * pn) \div pd + 1]
  ELSE RAdd(srt[((Len(srt) - 1) * pn) \div pd + 1],
            RMul(Rat(((Len(srt) - 1) * pn) % pd, pd),
                 RSub(srt[((Len(srt) - 1) * pn) \div pd + 2],
                      srt[((Len(srt) - 1) * pn) \div pd + 1])))

\* np.percentile / np.nanpercentile / Series.quantile with linear
\* interpolation, at pn/pd, of the values of v (v holds no NaN)
Percentile(v, pn, pd) == Let(SortR(v), LAMBDA srt : PercentileSorted(srt, pn, pd))

\* Series.clip(lower, upper): NaN stays NaN
Clip(x, lower, upper) ==
  IF IsNaN(x) THEN NaN
  ELSE IF RLt(x, lower) THEN lower
  ELSE IF RGt(x, upper) THEN upper
  ELSE x

\* lines 82-83: the whole series inverted if its median is negative
invert_if_negative(q) ==
  IF RLt(Median(DropNa(q)), R(0))
    THEN AsSeq([i \in 1..Len(q) |-> RNeg(q[i])])
    ELSE q

\* lines 77-83: the charge counter in mAh, filtered, inverted if its median < 0
Q_from_charge_counter(df) ==
  Let(AsSeq([i \in 1..Len(df) |-> RDiv(df[i].charge_counter_uah, R(1000))]),
      LAMBDA q0 :
  Let(hampel(q0, 7, R(5)), LAMBDA q1 : invert_if_negative(q1)))

\* lines 86-90: the integrated current, shifted to start at its minimum
Q_from_current_avg(df, dt) ==
  Let(CumSum(AsSeq([i \in 1..Len(df) |->
        RDiv(RMul(RDiv(df[i].current_avg_ua, R(1000000)), dt[i]), R(3600))])),
      LAMBDA Q_Ah :
  Let(SeriesMin(Q_Ah), LAMBDA lowest :
    AsSeq([i \in 1..Len(df) |-> RMul(RSub(Q_Ah[i], lowest), R(1000))])))

\* the cut without its floor
full_thresh_unfloored(threshold) == threshold - 1

\* line 105
full_thresh(threshold) == Max2(threshold - 1, 98)

\* lines 106-107
is_full(df, threshold) ==
  AsSeq([i \in 1..Len(df) |-> RGe(df[i].battery_level, R(full_thresh(threshold)))])

\* line 108: (is_full != is_full.shift(1)).cumsum(); the first row is a change
block_id(full) ==
  AsSeq([i \in 1..Len(full) |->
    Cardinality({j \in 1..i : j = 1 \/ full[j] # full[j - 1]})])

\* line 109: np.where(is_full == 1, block_id, nan); 0 stands for NaN here
full_block_id(full) ==
  Let(block_id(full), LAMBDA bid :
    AsSeq([i \in 1..Len(full) |-> IF full[i] THEN bid[i] ELSE 0]))

\* the rows of block b that hold a charge value (lines 114-116)
BlockRows(Q, fbid, b) == {j \in 1..Len(Q) : fbid[j] = b /\ NotNa(Q[j])}

\* the place of the block's maximum counted inside the block, as idxmax gives
\* it for row labels that restart with every block
BlockIdxMaxWithinBlock(Q, rows) ==
  Cardinality({l \in rows :
    l <= (CHOOSE j \in rows :
            \A m \in rows : RLt(Q[m], Q[j]) \/ (Q[m] = Q[j] /\ j <= m))})

\* q.idxmax(): the first row of the block holding its maximum
BlockIdxMax(Q, rows) ==
  CHOOSE j \in rows : \A l \in rows : RLt(Q[l], Q[j]) \/ (Q[l] = Q[j] /\ j <= l)

\* the largest charge value of the block
BlockPeak(Q, rows) ==
  SeriesMax(DropNa(AsSeq([j \in 1..Len(Q) |-> IF j \in rows THEN Q[j] ELSE NaN])))

\* np.nanpercentile(q, 95) of the block's charge values
BlockCt(Q, rows) ==
  Percentile(DropNa(AsSeq([j \in 1..Len(Q) |-> IF j \in rows THEN Q[j] ELSE NaN])),
             95, 100)

\* the estimate of a block written on every row of the block
Ct_spread_over_block(Q, fbid) ==
  AsSeq([i \in 1..Len(Q) |->
    IF fbid[i] = 0 \/ IsNaN(Q[i]) THEN NaN
    ELSE Let(BlockRows(Q, fbid, fbid[i]), LAMBDA rows : BlockCt(Q, rows))])

\* lines 113-121: per block with a value, the 95th percentile of the block's
\* charge values written at the row of the block's (first) maximum
Ct_from_blocks(Q, fbid) ==
  AsSeq([i \in 1..Len(Q) |->
    IF fbid[i] = 0 \/ IsNaN(Q[i]) THEN NaN
    ELSE Let(BlockRows(Q, fbid, fbid[i]), LAMBDA rows :
           IF i = BlockIdxMax(Q, rows) THEN BlockCt(Q, rows) ELSE NaN)])

\* line 124: Series.rolling(window=6, min_periods=3).max(), a trailing window
RollingMax(q, window, minp) ==
  AsSeq([i \in 1..Len(q) |->
    Let(Valid(q, Max2(1, i - window + 1), i), LAMBDA v :
      IF Len(v) < minp THEN NaN ELSE SeriesMax(v))])

\* lines 110-121
Ct_candidates(Q, fbid) ==
  IF \E i \in 1..Len(Q) : fbid[i] # 0
    THEN Ct_from_blocks(Q, fbid)
    ELSE AsSeq([i \in 1..Len(Q) |-> NaN])

\* lines 115-121 as the loop runs: the blocks bids one after the other, each
\* writing its estimate at the row label idxmax returned (line 53 made the
\* labels the row positions)
RECURSIVE Ct_block_loop(_, _, _, _)
Ct_block_loop(Q, fbid, bids, ct) ==
  IF bids = <<>> THEN ct
  ELSE Let(BlockRows(Q, fbid, Head(bids)), LAMBDA rows :
         IF rows = {} THEN Ct_block_loop(Q, fbid, Tail(bids), ct)
         ELSE Ct_block_loop(Q, fbid, Tail(bids),
                [ct EXCEPT ![BlockIdxMax(Q, rows)] = BlockCt(Q, rows)]))

\* lines 123-124
Ct_with_fallback(Q, ct) == IF AllNa(ct) THEN RollingMax(Q, 6, 3) ELSE ct

\* the candidates left as they are
Ct_not_clipped(ct, C_nom_spec) == ct

\* lines 126-129
Ct_clipped(ct, C_nom_spec) ==
  IF C_nom_spec # None
    THEN AsSeq([i \in 1..Len(ct) |->
           Clip(ct[i], RMul(Rat(70, 100), C_nom_spec),
                       RMul(Rat(115, 100), C_nom_spec))])
    ELSE ct

\* lines 110-130: Ct_mAh
Ct_mAh(Q, fbid, C_nom_spec) ==
  Let(Ct_candidates(Q, fbid), LAMBDA ct0 :
  Let(Ct_with_fallback(Q, ct0), LAMBDA ct1 :
  Let(Ct_clipped(ct1, C_nom_spec), LAMBDA ct2 : FFill(ct2))))

\* lines 136-138: valid_ct[valid_ct <= hi], then its 95th percentile
C0_ref_trimmed(valid_ct, hi) ==
  Percentile(DropNa(AsSeq([i \in 1..Len(valid_ct) |->
               IF RLe(valid_ct[i], hi) THEN valid_ct[i] ELSE NaN])), 95, 100)

\* lines 133-138; None when there is no valid Ct
C0_ref_data(Ct) ==
  Let(DropNa(Ct), LAMBDA valid_ct :
    IF valid_ct = <<>> THEN None
    ELSE Let(Percentile(valid_ct, 99, 100), LAMBDA hi :
           C0_ref_trimmed(valid_ct, hi)))

\* lines 141-148
C0_ref_choice(data, C_nom_spec, default_C0) ==
  IF C_nom_spec # None /\ data # None
    THEN Clip(data, RMul(Rat(95, 100), C_nom_spec),
                    RMul(Rat(105, 100), C_nom_spec))
  ELSE IF data # None THEN data
  ELSE IF C_nom_spec # None THEN C_nom_spec
  ELSE R(default_C0)

C0_ref(Ct, C_nom_spec, default_C0) ==
  Let(C0_ref_data(Ct), LAMBDA data : C0_ref_choice(data, C_nom_spec, default_C0))

\* the SoH without its clip
SoH_unclipped(Ct, c0) == AsSeq([i \in 1..Len(Ct) |-> RDiv(Ct[i], c0)])

\* line 151
SoH_of(Ct, c0) ==
  AsSeq([i \in 1..Len(Ct) |-> Clip(RDiv(Ct[i], c0), R(0), Rat(12, 10))])

\* line 159: Series.diff().fillna(0)
delta_Q_mAh(Q) ==
  AsSeq([i \in 1..Len(Q) |->
    IF i = 1 \/ IsNaN(Q[i]) \/ IsNaN(Q[i - 1]) THEN R(0)
    ELSE RSub(Q[i], Q[i - 1])])

\* line 160
discharge_raw(Q) ==
  Let(delta_Q_mAh(Q), LAMBDA dq :
    AsSeq([i \in 1..Len(Q) |-> IF RLt(dq[i], R(0)) THEN RNeg(dq[i]) ELSE R(0)]))

\* the discharge without its cap
discharge_not_capped(dis, q99) == dis

\* lines 163-164
discharge_capped(dis, q99) ==
  AsSeq([i \in 1..Len(dis) |-> IF RGt(dis[i], q99) THEN q99 ELSE dis[i]])

\* lines 160-164: the discharge of each sample, capped at its 99th percentile
discharge_mAh(Q) ==
  Let(discharge_raw(Q), LAMBDA dis :
  Let(Percentile(dis, 99, 100), LAMBDA q99 : discharge_capped(dis, q99)))

\* line 165
EFC_of(Q, c0) ==
  Let(CumSum(discharge_mAh(Q)), LAMBDA cum :
    AsSeq([i \in 1..Len(Q) |-> RDiv(cum[i], c0)]))

NaNs(n) == AsSeq([i \in 1..n |-> NaN])
Times100(q) == AsSeq([i \in 1..Len(q) |-> RMul(q[i], R(100))])

\* pd.DataFrame(), returned from the except clause
EmptyFrame ==
  [df |-> <<>>, source |-> "error", delta_t_s |-> <<>>, Q_mAh |-> <<>>,
   full_block_id |-> <<>>, Ct_mAh |-> <<>>, C0_ref |-> None, SoH |-> <<>>,
   SoH_smooth |-> <<>>, SoH_pct |-> <<>>, SoH_smooth_pct |-> <<>>,
   discharge_mAh |-> <<>>, EFC |-> <<>>]

\* lines 92-102: neither source has a value
soh_frame_without_source(df, dt) ==
  [df |-> df, source |-> "none", delta_t_s |-> dt,
   Q_mAh |-> NaNs(Len(df)), full_block_id |-> AsSeq([i \in 1..Len(df) |-> 0]),
   Ct_mAh |-> NaNs(Len(df)), C0_ref |-> None, SoH |-> NaNs(Len(df)),
   SoH_smooth |-> NaNs(Len(df)), SoH_pct |-> NaNs(Len(df)),
   SoH_smooth_pct |-> NaNs(Len(df)), discharge_mAh |-> NaNs(Len(df)),
   EFC |-> NaNs(Len(df))]

\* lines 104-167, from the charge curve Q on
soh_frame_from_Q(df, dt, source, Q, C_nom_spec, default_C0, threshold, roll_win) ==
  Let(full_block_id(is_full(df, threshold)), LAMBDA fbid :
  Let(Ct_mAh(Q, fbid, C_nom_spec), LAMBDA Ct :
  Let(C0_ref(Ct, C_nom_spec, default_C0), LAMBDA c0 :
  Let(SoH_of(Ct, c0), LAMBDA SoH :
  Let(RollingMedianCentered(SoH, (roll_win - 1) \div 2, 1), LAMBDA SoH_smooth :
    [df |-> df, source |-> source,
     delta_t_s |-> dt, Q_mAh |-> Q, full_block_id |-> fbid,
     Ct_mAh |-> Ct, C0_ref |-> c0, SoH |-> SoH,
     SoH_smooth |-> SoH_smooth, SoH_pct |-> Times100(SoH),
     SoH_smooth_pct |-> Times100(SoH_smooth),
     discharge_mAh |-> discharge_mAh(Q), EFC |-> EFC_of(Q, c0)])))))

\* the choice of the charge source with the integrated current tried first
soh_frame_current_first(df, dt, capacity_map, default_C0, threshold, roll_win) ==
  Let(CapacityGet(capacity_map, df[1].device_id), LAMBDA C_nom_spec :
    IF AnyNotNa(Col(df, "current_avg_ua"))
      THEN Let(Q_from_current_avg(df, dt), LAMBDA Q :
             soh_frame_from_Q(df, dt, "current_avg", Q, C_nom_spec,
                              default_C0, threshold, roll_win))
    ELSE IF AnyNotNa(Col(df, "charge_counter_uah"))
      THEN Let(Q_from_charge_counter(df), LAMBDA Q :
             soh_frame_from_Q(df, dt, "charge_counter", Q, C_nom_spec,
                              default_C0, threshold, roll_win))
    ELSE soh_frame_without_source(df, dt))

\* lines 61-102 and on: the nominal capacity of the first row's device and
\* the choice of the charge source
soh_frame_sorted(df, dt, capacity_map, default_C0, threshold, roll_win) ==
  Let(CapacityGet(capacity_map, df[1].device_id), LAMBDA C_nom_spec :
    IF AnyNotNa(Col(df, "charge_counter_uah"))
      THEN Let(Q_from_charge_counter(df), LAMBDA Q :
             soh_frame_from_Q(df, dt, "charge_counter", Q, C_nom_spec,
                              default_C0, threshold, roll_win))
    ELSE IF AnyNotNa(Col(df, "current_avg_ua"))
      THEN Let(Q_from_current_avg(df, dt), LAMBDA Q :
             soh_frame_from_Q(df, dt, "current_avg", Q, C_nom_spec,
                              default_C0, threshold, roll_win))
    ELSE soh_frame_without_source(df, dt))

\* The returned frame, column by column.  df holds the sorted input rows;
\* source and C0_ref are not columns: they record the branch taken and the
\* local C0_ref.  An empty frame makes df[DEVICE_COL].iloc[0] raise, and the
\* except clause returns pd.DataFrame().
\* line 52: pd.to_datetime(errors="coerce"); a timestamp that cannot be
\* parsed (written <<0, -1>>) becomes NaT and the row stays in the frame
to_datetime_coerce(df) ==
  AsSeq([i \in 1..Len(df) |->
    IF df[i].created_at = <<0, -1>> THEN [df[i] EXCEPT !.created_at = NaN]
    ELSE df[i]])

calculate_soh_cycles(df_in, capacity_map, default_C0, threshold, roll_win) ==
  IF df_in = <<>> THEN EmptyFrame
  ELSE Let(SortRows(to_datetime_coerce(df_in)), LAMBDA df :
       Let(delta_t_s(df), LAMBDA dt :
         soh_frame_sorted(df, dt, capacity_map, default_C0, threshold, roll_win)))

-----------------------------------------------------------------------------
(* Binary floating point.  astype(float) makes a column float64: every    *)
(* arithmetic step rounds its exact result to the nearest value with a    *)
(* mantissa of fixed width, ties to even.  The rounding steps below are   *)
(* those of float64; the mantissa is FloatMantissaBits wide instead of 53 *)
(* so that the exact intermediate results stay within the integers.       *)

FloatMantissaBits == 4

RECURSIVE Pow2(_)
Pow2(e) == IF e = 0 THEN 1 ELSE 2 * Pow2(e - 1)

\* a * 2^(-e) for a finite rational a
Scale(a, e) ==
  IF e >= 0 THEN Rat(a[1], a[2] * Pow2(e)) ELSE Rat(a[1] * Pow2(-e), a[2])

\* the exponent e with 2^(p-1) <= a / 2^e < 2^p, for a > 0, searched from e
RECURSIVE FloatExponent(_, _, _)
FloatExponent(a, p, e) ==
  IF RGe(Scale(a, e), R(Pow2(p))) THEN FloatExponent(a, p, e + 1)
  ELSE IF RLt(Scale(a, e), R(Pow2(p - 1))) THEN FloatExponent(a, p, e - 1)
  ELSE e

\* q >= 0 rounded to the nearest integer, ties to even
RoundHalfEven(q) ==
  Let(q[1] \div q[2], LAMBDA m :
    IF 2 * (q[1] - m * q[2]) > q[2] THEN m + 1
    ELSE IF 2 * (q[1] - m * q[2]) < q[2] THEN m
    ELSE IF m % 2 = 0 THEN m ELSE m + 1)

\* the float nearest to the exact value r
RoundFloat(r) ==
  IF ~IsFinite(r) \/ r[1] = 0 THEN r
  ELSE Let(FloatExponent(RAbs(r), FloatMantissaBits, 0), LAMBDA e :
         Scale(R(Sign(r[1]) * RoundHalfEven(Scale(RAbs(r), e))), -e))

FAdd(a, b) == RoundFloat(RAdd(a, b))
FSub(a, b) == RoundFloat(RSub(a, b))
FMul(a, b) == RoundFloat(RMul(a, b))
FDiv(a, b) == RoundFloat(RDiv(a, b))

\* the exponent e with 4^(p-1) <= a / 4^e < 4^p, for a > 0, searched from e
RECURSIVE SqrtExponent(_, _, _)
SqrtExponent(a, p, e) ==
  IF RGe(Scale(a, 2 * e), R(Pow2(2 * p))) THEN SqrtExponent(a, p, e + 1)
  ELSE IF RLt(Scale(a, 2 * e), R(Pow2(2 * (p - 1)))) THEN SqrtExponent(a, p, e - 1)
  ELSE e

\* sqrt(q) rounded to the nearest integer, for 4^(p-1) <= q < 4^p
RoundSqrt(q, p) ==
  Let(CHOOSE m \in Pow2(p - 1)..(Pow2(p) - 1) :
        RLe(R(m * m), q) /\ RLt(q, R((m + 1) * (m + 1))), LAMBDA m :
    IF RGt(RMul(q, R(4)), R((2 * m + 1) * (2 * m + 1))) THEN m + 1 ELSE m)

\* np.sqrt: the float nearest to the square root of r
FSqrt(r) ==
  IF IsNaN(r) \/ r = PInf \/ r[1] = 0 THEN r
  ELSE IF r[1] < 0 THEN NaN
  ELSE Let(SqrtExponent(r, FloatMantissaBits, 0), LAMBDA e :
         Scale(R(RoundSqrt(Scale(r, 2 * e), FloatMantissaBits)), -e))

\* values.sum() over the values that are not NaN, added in order
RECURSIVE FSumFrom(_, _)
FSumFrom(v, acc) ==
  IF v = <<>> THEN acc ELSE FSumFrom(Tail(v), FAdd(acc, Head(v)))

FSum(v) == FSumFrom(v, R(0))

\* Series.mean(): nanmean, the sum of the valid values over their count;
\* 0 / 0 = NaN when no value is valid
SeriesMean(x) ==
  Let(DropNa(x), LAMBDA v : FDiv(FSum(v), R(Len(v))))

\* nanvar: avg = sum / count; sqr = (avg - values) ** 2; sqr.sum() / (count - ddof)
SeriesVar(x, ddof) ==
  Let(DropNa(x), LAMBDA v :
    IF Len(v) <= ddof THEN NaN
    ELSE Let(FDiv(FSum(v), R(Len(v))), LAMBDA avg :
         Let(AsSeq([i \in 1..Len(v) |->
               Let(FSub(avg, v[i]), LAMBDA dev : FMul(dev, dev))]), LAMBDA sqr :
           FDiv(FSum(sqr), R(Len(v) - ddof)))))

\* Series.std(ddof): the square root of nanvar
SeriesStd(x, ddof) == FSqrt(SeriesVar(x, ddof))

-----------------------------------------------------------------------------
(* add_per_device_zscore, src/core/feature_engineering.py                  *)
(* A table is a record of its set of columns and its sequence of rows.     *)

\* the columns handed in as cols (two of AGING_BASE_COLS)
ZCols == <<"batt_temp_c", "EFC">>

\* the positions among idx of the rows of device d, in order
RECURSIVE GroupRowsFrom(_, _, _)
GroupRowsFrom(df, d, idx) ==
  IF idx = <<>> THEN <<>>
  ELSE IF df.rows[Head(idx)].device_id = d
    THEN <<Head(idx)>> \o GroupRowsFrom(df, d, Tail(idx))
  ELSE GroupRowsFrom(df, d, Tail(idx))

\* the group of device d under groupby("device_id")
GroupRows(df, d) == GroupRowsFrom(df, d, Idx(1, Len(df.rows)))

\* g[c].astype(float) for the group at the positions ix
GroupCol(df, ix, c) == AsSeq([j \in 1..Len(ix) |-> df.rows[ix[j]][c]])

\* lines 84-90: the z column of one group and one column
z_of_group(x, mu, sigma) ==
  IF sigma = R(0) \/ IsNaN(sigma)
    THEN AsSeq([j \in 1..Len(x) |-> R(0)])
    ELSE AsSeq([j \in 1..Len(x) |-> FDiv(FSub(x[j], mu), sigma)])

\* _z_per_dev for one column: mu = x.mean(); sigma = x.std(ddof=0)
z_per_dev(x) ==
  Let(SeriesMean(x), LAMBDA mu :
  Let(SeriesStd(x, 0), LAMBDA sigma : z_of_group(x, mu, sigma)))

\* the position of row i among the rows ix of its group
RECURSIVE PosIn(_, _)
PosIn(ix, i) == IF Head(ix) = i THEN 1 ELSE 1 + PosIn(Tail(ix), i)

\* the z value of row i in column c: the value its group gives it
z_of_row(df, c, i) ==
  Let(GroupRows(df, df.rows[i].device_id), LAMBDA ix :
    z_per_dev(GroupCol(df, ix, c))[PosIn(ix, i)])

\* line 92: groupby("device_id", group_keys=False).apply(_z_per_dev); each
\* row keeps its place.  The result maps each column of cols that the
\* table has (line 82) to its z column.
z_columns(df, cols) ==
  [c \in {cols[k] : k \in 1..Len(cols)} \cap df.columns |->
     AsSeq([i \in 1..Len(df.rows) |-> z_of_row(df, c, i)])]

\* the returned table: the input columns and the z columns
add_per_device_zscore(df, cols) ==
  [columns |-> df.columns, rows |-> df.rows, z |-> z_columns(df, cols)]

-----------------------------------------------------------------------------
(* build_windows, src/core/feature_engineering.py                          *)
(* The feature table is a record of its set of optional columns and its    *)
(* sequence of rows; positions are counted from 0 as in the source, row i  *)
(* of the source being rows[i + 1].                                        *)

\* feature_cols handed to build_windows (two of FEATURE_COLS)
FeatureCols == <<"batt_temp_c", "soh_trend">>

\* range(lo, hi) as a sequence
PyRange(lo, hi) == AsSeq([j \in 1..(IF hi > lo THEN hi - lo ELSE 0) |-> lo + j - 1])

\* a slice bound of a sequence of length n: negative bounds count from the
\* end, and every bound is cut to 0 .. n
PySliceBound(b, n) == IF b < 0 THEN Max2(b + n, 0) ELSE Min2(b, n)

\* values[start : stop]
PySlice(values, start, stop) ==
  Let(PySliceBound(start, Len(values)), LAMBDA a :
  Let(PySliceBound(stop, Len(values)), LAMBDA b :
    AsSeq([j \in 1..(IF b > a THEN b - a ELSE 0) |-> values[a + j]])))

\* Series.iloc[i] is defined for -n <= i < n
ILocOk(n, i) == -n <= i /\ i < n

\* Series.iloc[i]: a negative position counts from the end
ILoc(col, i) == IF i < 0 THEN col[Len(col) + i + 1] ELSE col[i + 1]

\* line 123: df_feat[feature_cols].values, one vector per row
FeatureValues(df, feature_cols) ==
  AsSeq([r \in 1..Len(df.rows) |->
    AsSeq([k \in 1..Len(feature_cols) |-> df.rows[r][feature_cols[k]]])])

WinCol(df, c) == AsSeq([r \in 1..Len(df.rows) |-> df.rows[r][c]])

\* lines 115-120: the SoH true series in percent; <<"ValueError">> when
\* the table has neither column
soh_true_series(df, soh_true_col) ==
  IF soh_true_col \in df.columns THEN Times100(WinCol(df, soh_true_col))
  ELSE IF "SoH_pct" \in df.columns THEN WinCol(df, "SoH_pct")
  ELSE <<"ValueError">>

\* a loop that skips the first target
window_indices_from_next(win_size, n) == PyRange(win_size + 1, n)

\* line 133: range(win_size, n)
window_indices(win_size, n) == PyRange(win_size, n)

\* a window that ends with its own target row
window_with_target(values, i, win_size) == PySlice(values, i - win_size + 1, i + 1)

\* line 134: values[i - win_size : i]
window_at(values, i, win_size) == PySlice(values, i - win_size, i)

\* line 138: the EFC of row i, NaN when the table has no EFC column
efc_at(df, i) == IF "EFC" \in df.columns THEN ILoc(WinCol(df, "EFC"), i) ELSE NaN

\* np.array(windows, dtype=float) needs windows of one length
Homogeneous(windows) ==
  \A a, b \in 1..Len(windows) : Len(windows[a]) = Len(windows[b])

\* the value returned through the except clause (lines 148-149)
WindowsNone == [ok |-> FALSE]

\* lines 122-147
windows_of(df, soh_true, values, idx, win_size) ==
  IF \E j \in 1..Len(idx) : ~ILocOk(Len(values), idx[j]) THEN WindowsNone
  ELSE Let(AsSeq([j \in 1..Len(idx) |-> window_at(values, idx[j], win_size)]),
           LAMBDA windows :
         IF ~Homogeneous(windows) THEN WindowsNone
         ELSE [ok |-> TRUE, X |-> windows,
               timestamps |->
                 AsSeq([j \in 1..Len(idx) |-> ILoc(WinCol(df, "created_at"), idx[j])]),
               soh_true |-> AsSeq([j \in 1..Len(idx) |-> ILoc(soh_true, idx[j])]),
               efc |-> AsSeq([j \in 1..Len(idx) |-> efc_at(df, idx[j])])])

build_windows(df_feat, feature_cols, win_size, soh_true_col) ==
  Let(soh_true_series(df_feat, soh_true_col), LAMBDA soh_true :
    IF soh_true = <<"ValueError">> THEN WindowsNone
    ELSE Let(FeatureValues(df_feat, feature_cols), LAMBDA values :
         Let(window_indices(win_size, Len(values)), LAMBDA idx :
           windows_of(df_feat, soh_true, values, idx, win_size))))

-----------------------------------------------------------------------------
(* estimate_rul_from_soh, src/api/controller/prediction_controller.py      *)
(* The module-level k_global, soh_eol and hours_per_cycle are read from    *)
(* the model configuration file; they are the record cfg here.             *)

\* Python's max(a, b): b if b > a, else a (a NaN first argument is kept)
PyMax(a, b) == IF RGt(b, a) THEN b ELSE a

\* line 81
delta_soh(soh_pred, cfg) == FSub(soh_pred, cfg.soh_eol)

\* the ratio without its floor at 0
rul_cycles_unclamped(soh_pred, cfg) == FDiv(delta_soh(soh_pred, cfg), cfg.k_global)

\* line 82: max(delta_soh / k_global, 0)
rul_cycles(soh_pred, cfg) ==
  PyMax(FDiv(delta_soh(soh_pred, cfg), cfg.k_global), R(0))

\* lines 85-96
rul_estimates(cycles, cfg) ==
  Let(FMul(cycles, cfg.hours_per_cycle), LAMBDA rul_hours :
  Let(FDiv(rul_hours, R(24)), LAMBDA rul_days :
    [raised |-> FALSE, rul_cycles |-> cycles, rul_hours |-> rul_hours,
     rul_months |-> FDiv(rul_days, R(30)), rul_years |-> FDiv(rul_days, R(365))]))

\* a float division by zero raises ZeroDivisionError, which the except
\* clause turns into CustomException (lines 97-99)
estimate_rul_from_soh(soh_pred, cfg) ==
  IF cfg.k_global = R(0) THEN [raised |-> TRUE]
  ELSE Let(rul_cycles(soh_pred, cfg), LAMBDA cycles : rul_estimates(cycles, cfg))

-----------------------------------------------------------------------------
(* base_guard and calculate_throughput, src/core/throughput_energy.py      *)
(* A row carries the label it has in the index of the input frame; the     *)
(* index is kept by sort_values and dropna.                                *)

\* a created_at value that pd.to_datetime cannot parse
Unparseable == <<0, -1>>

\* the value base_guard returns from its except clause, and the caller after it
ThroughputNone == [ok |-> FALSE, rows |-> <<>>]

\* lines 19-35: None when a timestamp cannot be parsed (to_datetime raises),
\* the frame itself when it is empty, else the rows sorted by device and time
base_guard(rows) ==
  IF rows = <<>> THEN [ok |-> TRUE, rows |-> <<>>]
  ELSE IF \E i \in 1..Len(rows) : rows[i].created_at = Unparseable THEN ThroughputNone
  ELSE [ok |-> TRUE, rows |-> SortRows(rows)]

HasCounters(r) == NotNa(r.tx_total_bytes) /\ NotNa(r.rx_total_bytes)

\* line 53: df.dropna(subset=["tx_total_bytes", "rx_total_bytes"])
dropna_counters(rows) == SelectSeq(rows, HasCounters)

\* a diff that takes the row before, whatever its device
prev_any(rows, i) == i - 1

\* groupby(DEVICE_COL)[...].diff(): the row before i in the group of i, 0 if none
prev_in_group(rows, i) ==
  IF i > 1 /\ rows[i - 1].device_id = rows[i].device_id THEN i - 1 ELSE 0

\* lines 54-56: the difference to the row before in the group, NaN if none
group_diff(rows, i, c) ==
  Let(prev_in_group(rows, i), LAMBDA p :
    IF p = 0 THEN NaN ELSE RSub(rows[i][c], rows[p][c]))

\* lines 54-56
with_deltas(rows) ==
  AsSeq([i \in 1..Len(rows) |->
    [index |-> rows[i].index, device_id |-> rows[i].device_id,
     created_at |-> rows[i].created_at,
     tx_total_bytes |-> rows[i].tx_total_bytes,
     rx_total_bytes |-> rows[i].rx_total_bytes,
     delta_t |-> group_diff(rows, i, "created_at"),
     delta_tx_bytes |-> group_diff(rows, i, "tx_total_bytes"),
     delta_rx_bytes |-> group_diff(rows, i, "rx_total_bytes")]])

HasDeltas(r) ==
  NotNa(r.delta_t) /\ NotNa(r.delta_tx_bytes) /\ NotNa(r.delta_rx_bytes)

\* line 59: df.dropna(subset=["delta_t", "delta_tx_bytes", "delta_rx_bytes"])
dropna_deltas(rows) == SelectSeq(rows, HasDeltas)

MEGA == 1000000

\* lines 62-71 for one row
throughput_row(r) ==
  Let(RDiv(RMul(r.delta_tx_bytes, R(8)), r.delta_t), LAMBDA up :
  Let(RDiv(RMul(r.delta_rx_bytes, R(8)), r.delta_t), LAMBDA down :
  Let(RDiv(RMul(RAdd(r.delta_tx_bytes, r.delta_rx_bytes), R(8)), r.delta_t),
      LAMBDA total :
    [index |-> r.index, device_id |-> r.device_id, created_at |-> r.created_at,
     tx_total_bytes |-> r.tx_total_bytes, rx_total_bytes |-> r.rx_total_bytes,
     delta_t |-> r.delta_t, delta_tx_bytes |-> r.delta_tx_bytes,
     delta_rx_bytes |-> r.delta_rx_bytes,
     throughput_upload_bps |-> up, throughput_download_bps |-> down,
     throughput_total_bps |-> total,
     throughput_upload_mbps |-> RDiv(up, R(MEGA)),
     throughput_download_mbps |-> RDiv(down, R(MEGA)),
     throughput_total_mbps |-> RDiv(total, R(MEGA))])))

\* lines 52-72
throughput_rows(sorted) ==
  Let(dropna_counters(sorted), LAMBDA kept :
  Let(dropna_deltas(with_deltas(kept)), LAMBDA d :
    AsSeq([i \in 1..Len(d) |-> throughput_row(d[i])])))

\* lines 38-74
calculate_throughput(rows) ==
  Let(base_guard(rows), LAMBDA df :
    IF ~df.ok \/ df.rows = <<>> THEN df
    ELSE [ok |-> TRUE, rows |-> throughput_rows(df.rows)])

-----------------------------------------------------------------------------
(* calculate_energy_consumption and calculate_throughput_energy_and_bot,   *)
(* src/core/throughput_energy.py                                           *)

ALPHA_TX == Rat(446, 1)
BETA_TX == Rat(3381132, 1000000)
ALPHA_RX == Rat(3575443, 10000)
BETA_RX == Rat(1969068, 1000000)

\* a number m * 10^e, for the columns scaled by 1e-9
Sci(m, e) == [m |-> m, e |-> e]

\* s * 10^k
TimesPow10(s, k) == Sci(s.m, s.e + k)

\* the float a scaled number with exponent 0 stands for
SciValue(s) == IF s.e = 0 THEN s.m ELSE NaN

\* lines 92-95, for the sorted rows: delta_t is NaN on a device's first row
energy_rows(rows) ==
  AsSeq([i \in 1..Len(rows) |->
    Let(RDiv(rows[i].batt_voltage_mv, R(1000)), LAMBDA v :
    Let(RDiv(rows[i].current_avg_ua, R(1000000)), LAMBDA a :
      [index |-> rows[i].index, device_id |-> rows[i].device_id,
       created_at |-> rows[i].created_at, batt_voltage_v |-> v,
       batt_temp_c |-> rows[i].batt_temp_c,
       energy_wh |->
         RDiv(RMul(RMul(v, a), group_diff(rows, i, "created_at")), R(3600))]))])

\* lines 80-98
calculate_energy_consumption(rows) ==
  Let(base_guard(rows), LAMBDA df :
    IF ~df.ok \/ df.rows = <<>> THEN df
    ELSE [ok |-> TRUE, rows |-> energy_rows(df.rows)])

\* the rows of eng with the device and timestamp of the throughput row t
MatchingRows(t, eng) ==
  SelectSeq(eng, LAMBDA e : e.device_id = t.device_id /\ e.created_at = t.created_at)

\* one row of the inner merge
merged_row(t, e) ==
  [index |-> t.index, device_id |-> t.device_id, created_at |-> t.created_at,
   throughput_total_bps |-> t.throughput_total_bps,
   throughput_total_mbps |-> t.throughput_total_mbps,
   batt_voltage_v |-> e.batt_voltage_v, energy_wh |-> e.energy_wh,
   batt_temp_c |-> e.batt_temp_c]

\* lines 119-124: pd.merge(thr, eng, on=[device, timestamp], how="inner"):
\* every throughput row with every energy row of its key, in key order
RECURSIVE merge_inner(_, _)
merge_inner(thr, eng) ==
  IF thr = <<>> THEN <<>>
  ELSE Let(MatchingRows(Head(thr), eng), LAMBDA es :
         AsSeq([j \in 1..Len(es) |-> merged_row(Head(thr), es[j])]))
       \o merge_inner(Tail(thr), eng)

\* the column left as it is
keep_zero(x) == x

\* line 127: Series.replace(0, np.nan)
replace_zero(x) == IF x = R(0) THEN NaN ELSE x

\* lines 130-131
energy_per_bit(alpha, beta, throughput_bps) == RAdd(RDiv(alpha, throughput_bps), beta)

\* lines 132-136
energy_per_bit_avg_J(tx, rx) == Sci(RDiv(RAdd(tx, rx), R(2)), -9)

\* line 139: Series.mean() of the voltage over every row of the merged frame
V_avg_of(merged) ==
  Let(DropNa(AsSeq([i \in 1..Len(merged) |-> merged[i].batt_voltage_v])), LAMBDA v :
    IF v = <<>> THEN NaN
    ELSE RDiv(CumSum(v)[Len(v)], R(Len(v))))

\* lines 140-142: (avg_J * (8 * 1e9) / V_avg) * (1000.0 / 3600.0)
BoT_of(avg_J, V_avg) ==
  Let(TimesPow10(Sci(RMul(avg_J.m, R(8)), avg_J.e), 9), LAMBDA bits :
    RMul(RDiv(SciValue(bits), V_avg), Rat(1000, 3600)))

\* lines 127-142 for one row of the merged frame
bot_row(r, V_avg) ==
  Let(replace_zero(r.throughput_total_bps), LAMBDA bps :
  Let(energy_per_bit(ALPHA_TX, BETA_TX, bps), LAMBDA tx :
  Let(energy_per_bit(ALPHA_RX, BETA_RX, bps), LAMBDA rx :
  Let(energy_per_bit_avg_J(tx, rx), LAMBDA avg_J :
    [index |-> r.index, device_id |-> r.device_id, created_at |-> r.created_at,
     throughput_total_bps |-> bps,
     throughput_total_mbps |-> r.throughput_total_mbps,
     batt_voltage_v |-> r.batt_voltage_v, energy_wh |-> r.energy_wh,
     batt_temp_c |-> r.batt_temp_c,
     energy_per_bit_tx |-> tx, energy_per_bit_rx |-> rx,
     energy_per_bit_tx_J |-> Sci(tx, -9), energy_per_bit_rx_J |-> Sci(rx, -9),
     energy_per_bit_avg_J |-> avg_J,
     BoT_mAh_per_Gbps |-> BoT_of(avg_J, V_avg)]))))

\* lines 119-143
bot_rows(thr, eng) ==
  Let(SortRows(merge_inner(thr, eng)), LAMBDA merged :
  Let(V_avg_of(merged), LAMBDA V_avg :
    AsSeq([i \in 1..Len(merged) |-> bot_row(merged[i], V_avg)])))

\* lines 101-145
calculate_throughput_energy_and_bot(rows) ==
  Let(base_guard(rows), LAMBDA df :
    IF ~df.ok \/ df.rows = <<>> THEN df
    ELSE Let(calculate_throughput(df.rows), LAMBDA thr :
         Let(calculate_energy_consumption(df.rows), LAMBDA eng :
           [ok |-> TRUE, rows |-> bot_rows(thr.rows, eng.rows)])))

-----------------------------------------------------------------------------
(* add_aging_features, src/core/aging_features.py                          *)
(* A table is a record of its set of columns and its sequence of rows; a   *)
(* row holds NaN in a column the table does not have.                      *)

WIN_FAST == 6
WIN_SLOW == 48

\* the value an except clause without return hands back
AgingNone == [ok |-> FALSE, columns |-> {}, rows |-> <<>>]

Reverse(q) == AsSeq([i \in 1..Len(q) |-> q[Len(q) + 1 - i]])

\* Series.bfill()
BFill(q) == Reverse(FFill(Reverse(q)))

\* one step of ewm(adjust=False).mean(): st is the running mean and the
\* weight of the past, which decays over missing values
ewm_step(st, cur, alpha) ==
  IF IsNaN(st.weighted) THEN [weighted |-> cur, old_wt |-> R(1)]
  ELSE Let(RMul(st.old_wt, RSub(R(1), alpha)), LAMBDA old_wt :
         IF IsNaN(cur) THEN [weighted |-> st.weighted, old_wt |-> old_wt]
         ELSE [weighted |-> RDiv(RAdd(RMul(old_wt, st.weighted), RMul(alpha, cur)),
                                 RAdd(old_wt, alpha)),
               old_wt |-> R(1)])

RECURSIVE ewm_from(_, _, _, _)
ewm_from(vals, alpha, st, out) ==
  IF vals = <<>> THEN out
  ELSE Let(ewm_step(st, Head(vals), alpha), LAMBDA nxt :
         ewm_from(Tail(vals), alpha, nxt, Append(out, nxt.weighted)))

\* Series.ewm(span=span, adjust=False).mean(): alpha = 2 / (span + 1); NaN up
\* to the first value, and the mean so far on a missing value after it
ewm_mean(vals, span) ==
  ewm_from(vals, Rat(2, span + 1), [weighted |-> NaN, old_wt |-> R(1)], <<>>)

\* the same for a column of values m x 10^e
ewm_mean_sci(vals, span) ==
  Let(ewm_mean(AsSeq([i \in 1..Len(vals) |-> vals[i].m]), span), LAMBDA m :
    AsSeq([i \in 1..Len(vals) |-> Sci(m[i], vals[i].e)]))

Zeros(n) == AsSeq([i \in 1..n |-> R(0)])

\* lines 28-55, _per_dev: the columns added to the rows g of one device,
\* already in order of time
aging_per_dev(columns, g, win_fast, win_slow) ==
  Let(ewm_mean(Col(g, "SoH_filled"), win_fast), LAMBDA fast :
  Let(ewm_mean(Col(g, "SoH_filled"), win_slow), LAMBDA slow :
  Let(delta_Q_mAh(Col(g, "EFC")), LAMBDA efc_delta :
  Let(IF "batt_temp_c" \in columns
        THEN ewm_mean(Col(g, "batt_temp_c"), win_fast) ELSE Zeros(Len(g)),
      LAMBDA temp_ema :
  Let(IF "batt_temp_c" \in columns
        THEN RollingMax(Col(g, "batt_temp_c"), win_fast, 1) ELSE Zeros(Len(g)),
      LAMBDA temp_max_win :
  Let(IF "throughput_total_gb" \in columns
        THEN ewm_mean(Col(g, "throughput_total_gb"), win_fast) ELSE Zeros(Len(g)),
      LAMBDA tp_ema :
  Let(IF "energy_per_bit_avg_J" \in columns
        THEN ewm_mean_sci(Col(g, "energy_per_bit_avg_J"), win_fast)
        ELSE AsSeq([i \in 1..Len(g) |-> Sci(R(0), 0)]),
      LAMBDA epb_ema :
    AsSeq([i \in 1..Len(g) |->
      [soh_ema_fast |-> fast[i], soh_ema_slow |-> slow[i],
       soh_trend |-> RSub(fast[i], slow[i]), efc_delta |-> efc_delta[i],
       temp_ema |-> temp_ema[i], temp_max_win |-> temp_max_win[i],
       tp_ema |-> tp_ema[i], epb_ema |-> epb_ema[i]] @@ g[i]]))))))))

\* line 25: ffill().bfill() of SoH_filled over the whole sorted table
SoH_filled_of(rows) ==
  Let(BFill(FFill(Col(rows, "SoH_filled"))), LAMBDA filled :
    AsSeq([i \in 1..Len(rows) |-> [rows[i] EXCEPT !.SoH_filled = filled[i]]]))

\* line 56: groupby(DEVICE_COL).apply(_per_dev).reset_index(drop=True), the
\* groups in the order of their device ids
aging_groups(columns, rows, win_fast, win_slow) ==
  Let(SelectSeq(rows, LAMBDA r : DeviceOrder(r.device_id) = 1), LAMBDA g1 :
  Let(SelectSeq(rows, LAMBDA r : DeviceOrder(r.device_id) # 1), LAMBDA g2 :
    aging_per_dev(columns, g1, win_fast, win_slow)
      \o aging_per_dev(columns, g2, win_fast, win_slow)))

AgingColumns ==
  {"soh_ema_fast", "soh_ema_slow", "soh_trend", "efc_delta", "temp_ema",
   "temp_max_win", "tp_ema", "epb_ema"}

\* lines 22-59.  df["SoH_filled"] (line 25) and g["EFC"] (line 33) raise
\* KeyError on a table without the column; the except clause prints and
\* the function returns None.
add_aging_features(df, win_fast, win_slow) ==
  IF "SoH_filled" \notin df.columns \/ "EFC" \notin df.columns THEN AgingNone
  ELSE Let(SoH_filled_of(SortRows(df.rows)), LAMBDA rows :
         [ok |-> TRUE, columns |-> df.columns \cup AgingColumns,
          rows |-> aging_groups(df.columns, rows, win_fast, win_slow)])

-----------------------------------------------------------------------------
(* make_lstm_features, src/core/feature_engineering.py *)

\* the frame calculate_soh_cycles returned, row by row
soh_rows(frame) ==
  AsSeq([i \in 1..Len(frame.df) |->
    frame.df[i] @@
      [delta_t_s |-> frame.delta_t_s[i], Q_mAh |-> frame.Q_mAh[i],
       Ct_mAh |-> frame.Ct_mAh[i], SoH |-> frame.SoH[i],
       SoH_smooth |-> frame.SoH_smooth[i], SoH_pct |-> frame.SoH_pct[i],
       SoH_smooth_pct |-> frame.SoH_smooth_pct[i],
       discharge_mAh |-> frame.discharge_mAh[i], EFC |-> frame.EFC[i]]])

\* lines 44-46: groupby(DEVICE_COL, group_keys=False).apply(calculate_soh_cycles)
\* with the defaults of calculate_soh_cycles, the groups in the order of
\* their device ids
soh_per_device(df_raw) ==
  Let(SelectSeq(df_raw, LAMBDA r : DeviceOrder(r.device_id) = 1), LAMBDA g1 :
  Let(SelectSeq(df_raw, LAMBDA r : DeviceOrder(r.device_id) # 1), LAMBDA g2 :
    soh_rows(calculate_soh_cycles(g1, BATTERY_CAPACITY_SPEC, 5000, 100, 3))
      \o soh_rows(calculate_soh_cycles(g2, BATTERY_CAPACITY_SPEC, 5000, 100, 3))))

\* the columns of te_df that lines 54-64 select
te_columns(r) ==
  [throughput_total_bps |-> r.throughput_total_bps,
   throughput_total_mbps |-> r.throughput_total_mbps,
   energy_wh |-> r.energy_wh,
   energy_per_bit_avg_J |-> r.energy_per_bit_avg_J,
   BoT_mAh_per_Gbps |-> r.BoT_mAh_per_Gbps]

te_missing ==
  [throughput_total_bps |-> NaN, throughput_total_mbps |-> NaN,
   energy_wh |-> NaN, energy_per_bit_avg_J |-> Sci(NaN, -9),
   BoT_mAh_per_Gbps |-> NaN]

\* lines 52-68: pd.merge(how="left") on (device, timestamp); a row of soh_df
\* without partner keeps its place with the te columns missing
RECURSIVE merge_left(_, _)
merge_left(soh, te) ==
  IF soh = <<>> THEN <<>>
  ELSE Let(SelectSeq(te, LAMBDA r : r.device_id = Head(soh).device_id
                                    /\ r.created_at = Head(soh).created_at
                                    /\ NotNa(r.created_at)),
           LAMBDA partners :
         (IF partners = <<>> THEN <<Head(soh) @@ te_missing>>
          ELSE AsSeq([j \in 1..Len(partners) |-> Head(soh) @@ te_columns(partners[j])]))
           \o merge_left(Tail(soh), te))

RawColumns ==
  {"device_id", "created_at", "charge_counter_uah", "current_avg_ua",
   "battery_level", "batt_voltage_mv", "batt_temp_c", "tx_total_bytes",
   "rx_total_bytes"}
SohColumns ==
  {"delta_t_s", "Q_mAh", "Ct_mAh", "SoH", "SoH_smooth", "SoH_pct",
   "SoH_smooth_pct", "discharge_mAh", "EFC"}
TeColumns ==
  {"throughput_total_bps", "throughput_total_mbps", "energy_wh",
   "energy_per_bit_avg_J", "BoT_mAh_per_Gbps"}

\* lines 35-74.  te_df[[...]] raises on None, and add_aging_features hands
\* back None on a table without SoH_filled; the function returns what
\* add_aging_features returned.
make_lstm_features(df_raw) ==
  Let(calculate_throughput_energy_and_bot(df_raw), LAMBDA te_df :
    IF ~te_df.ok THEN AgingNone
    ELSE Let(merge_left(soh_per_device(df_raw), te_df.rows), LAMBDA merged :
           add_aging_features(
             [columns |-> RawColumns \cup SohColumns \cup TeColumns, rows |-> merged],
             WIN_FAST, WIN_SLOW)))

-----------------------------------------------------------------------------
(* safe_float, src/api/controller/prediction_controller.py                 *)
(* A Python value is a record: its type t, its number v (for float, int    *)
(* and bool) and its text s (for str; "huge" marks an int beyond the range *)
(* of a float).                                                            *)

PyValue(t, v, s) == [t |-> t, v |-> v, s |-> s]
PyNone == PyValue("NoneType", NaN, "")
PyFloat(v) == PyValue("float", v, "")
PyInt(i) == PyValue("int", R(i), "")
PyHugeInt == PyValue("int", NaN, "huge")
PyBool(b) == PyValue("bool", IF b THEN R(1) ELSE R(0), "")
PyStr(s) == PyValue("str", NaN, s)
PyList == PyValue("list", NaN, "")

\* the outcome of float(x): a float, or the exception raised
Raised(exc) == [ok |-> FALSE, v |-> NaN, exc |-> exc]
Floated(v) == [ok |-> TRUE, v |-> v, exc |-> ""]

\* float(str): surrounding blanks are stripped; nan, inf and infinity are
\* read in any case and with a sign; a literal beyond the range becomes inf
float_of_str(s) ==
  CASE s = "3.5" -> Floated(Rat(7, 2))
    [] s = " 12 " -> Floated(R(12))
    [] s = "-0.25" -> Floated(Rat(-1, 4))
    [] s = "nan" -> Floated(NaN)
    [] s = "NaN" -> Floated(NaN)
    [] s = "inf" -> Floated(PInf)
    [] s = "-Infinity" -> Floated(NInf)
    [] s = "1e400" -> Floated(PInf)
    [] OTHER -> Raised("ValueError")

\* float(x)
py_float(x) ==
  CASE x.t = "float" -> Floated(x.v)
    [] x.t = "bool" -> Floated(x.v)
    [] x.t = "int" -> IF x.s = "huge" THEN Raised("OverflowError") ELSE Floated(x.v)
    [] x.t = "str" -> float_of_str(x.s)
    [] OTHER -> Raised("TypeError")

\* a check that lets infinities pass
isinf_or_isnan_nan_only(v) == IsNaN(v)

\* line 290: math.isinf(v) or math.isnan(v)
isinf_or_isnan(v) == IsNaN(v) \/ ~IsFinite(v)

\* lines 274-297
safe_float(x, default) ==
  IF x = PyNone THEN default
  ELSE Let(py_float(x), LAMBDA v :
         IF ~v.ok THEN default
         ELSE IF isinf_or_isnan(v.v) THEN default
         ELSE PyFloat(v.v))

\* Python's `a or b` for floats and None
py_or(a, b) == IF a = PyNone \/ a.v = R(0) THEN b ELSE a

\* lines 214-215 and 255-268 of run_prediction_pipeline: the numeric fields
\* of PredictionResponse
prediction_fields(soh_pred_smooth_last, soh_t, efc_val, rul_dict, metrics) ==
  Let(py_or(safe_float(soh_pred_smooth_last, PyFloat(R(0))), PyFloat(R(0))),
      LAMBDA soh_pred_pct_last :
    [soh_pred_pct |-> soh_pred_pct_last,
     soh_pred |-> PyFloat(RDiv(soh_pred_pct_last.v, R(100))),
     soh_true |-> safe_float(soh_t, PyFloat(R(0))),
     efc |-> safe_float(efc_val, PyNone),
     rul_cycles |-> safe_float(rul_dict.rul_cycles, PyFloat(R(0))),
     rul_months |-> safe_float(rul_dict.rul_months, PyFloat(R(0))),
     rul_hours |-> safe_float(rul_dict.rul_hours, PyFloat(R(0))),
     mae_pct |-> safe_float(metrics.mae_pct, PyNone),
     rmse_pct |-> safe_float(metrics.rmse_pct, PyNone),
     r2_soh |-> safe_float(metrics.r2_soh, PyNone)])

\* latest.get(col) of battery_metrics.py: None for a column the table lacks
row_get(row, col) == IF col \in DOMAIN row THEN row[col] ELSE PyNone

\* lines 91-109 of get_battery_metrics: the numeric fields of one soh_data
\* entry and of the cycles_data entry
battery_metrics_fields(row, latest) ==
  [Q_mAh |-> safe_float(row.Q_mAh, PyFloat(R(0))),
   Ct_mAh |-> safe_float(row.Ct_mAh, PyFloat(R(0))),
   soh_pct |-> safe_float(row.soh_pct, PyFloat(R(0))),
   delta_charge_uah |-> safe_float(row_get(latest, "delta_Q_mAh"), PyFloat(R(0))),
   discharge_uah |-> safe_float(row_get(latest, "discharge_mAh"), PyFloat(R(0))),
   cycles_est |-> safe_float(row_get(latest, "EFC"), PyFloat(R(0)))]

-----------------------------------------------------------------------------
(* Specification of _hampel: Init draws the arguments, the call returns *)

MaxHampelLen == 5
MaxSpikeLen == 17
HampelDefaultK == 7
HampelDefaultNsigma == 5

HampelVals == {NaN, R(10), R(12), R(40)}
HampelKs == {1, HampelDefaultK}
SpikeBase == {R(10)}
SpikeVals == {R(1000), R(9)}

\* a constant series of n samples with one spike x at position p
SpikeSeries(n, p, c, x) == [i \in 1..n |-> IF i = p THEN x ELSE c]

HampelArgs(q, k) == [s |-> q, k |-> k, nsigma |-> R(HampelDefaultNsigma)]

InitHampel ==
  /\ pc = "call"
  /\ \/ \E m \in 0..MaxHampelLen, k \in HampelKs :
          \E q \in [1..m -> HampelVals] : hampel_in = HampelArgs(q, k)
     \/ \E n \in 3..MaxSpikeLen, p \in 0..MaxSpikeLen,
           c \in SpikeBase, x \in SpikeVals :
          hampel_in = HampelArgs(SpikeSeries(n, p, c, x), HampelDefaultK)
  /\ hampel_out = NotCalled
  /\ IdleExcept("hampel")

CallHampel ==
  /\ pc = "call"
  /\ hampel_out' = hampel(hampel_in.s, hampel_in.k, hampel_in.nsigma)
  /\ pc' = "return"
  /\ UNCHANGED hampel_in
  /\ UnchangedExcept("hampel")

NextHampel == CallHampel

SpecHampel == InitHampel /\ [][NextHampel]_vars

-----------------------------------------------------------------------------
(* Properties of _hampel *)

HampelReturned == pc = "return" /\ hampel_in # NotCalled

\* the window of sample i: i-k .. i+k cut to the series
HampelWindow(i, n, k) == Max2(1, i - k)..Min2(n, i + k)

\* q is constant except for exactly one spike, at position p
IsSingleSpike(q, p) ==
  /\ Len(q) >= 3
  /\ p \in 1..Len(q)
  /\ \A i \in 1..Len(q) : NotNa(q[i])
  /\ \E c \in Range(q) :
       /\ q[p] # c
       /\ \A i \in (1..Len(q)) \ {p} : q[i] = c

(* C3: with the default k and nsigma, a series of at least 3 samples that *)
(* is constant except for one spike comes back with the spike replaced by *)
(* NaN and every other sample unchanged at its position.                  *)
C3_SingleSpikeRemoved ==
  (HampelReturned /\ hampel_in.k = HampelDefaultK
     /\ hampel_in.nsigma = R(HampelDefaultNsigma)) =>
    \A p \in 1..Len(hampel_in.s) :
      IsSingleSpike(hampel_in.s, p) =>
        /\ Len(hampel_out) = Len(hampel_in.s)
        /\ hampel_out[p] = NaN
        /\ \A i \in (1..Len(hampel_in.s)) \ {p} : hampel_out[i] = hampel_in.s[i]

\* a spike at the first position of a series longer than the window, removed
C3_Witness ==
  /\ HampelReturned
  /\ hampel_in.k = HampelDefaultK
  /\ Len(hampel_in.s) > 2 * HampelDefaultK + 1
  /\ IsSingleSpike(hampel_in.s, 1)
  /\ hampel_out[1] = NaN
  /\ hampel_out[Len(hampel_out)] = hampel_in.s[Len(hampel_in.s)]

\* no sample of q exceeds its threshold
HampelClean(q, k, nsigma) ==
  LET dev == hampel_dev(q, k)
      thresh == hampel_thresh(q, k, nsigma)
  IN  \A i \in 1..Len(q) : ~RGt(dev[i], thresh[i])

(* C4: _hampel never drops or moves a sample: the output has the length of *)
(* the input, each position holds the input value or NaN, a position is    *)
(* changed only if its deviation exceeds its threshold; a series with no   *)
(* sample over the threshold is returned equal to the input, and filtering *)
(* it again changes nothing.                                               *)
C4_HampelKeepsAlignment ==
  HampelReturned =>
    LET q == hampel_in.s
        k == hampel_in.k
        ns == hampel_in.nsigma
        dev == hampel_dev(q, k)
        thresh == hampel_thresh(q, k, ns)
    IN  /\ Len(hampel_out) = Len(q)
        /\ \A i \in 1..Len(q) :
             /\ hampel_out[i] \in {q[i], NaN}
             /\ hampel_out[i] # q[i] => RGt(dev[i], thresh[i])
        /\ HampelClean(q, k, ns) =>
             /\ hampel_out = q
             /\ hampel(hampel_out, k, ns) = hampel_out

\* an outlier in the middle of the series is replaced and its neighbours stay
C4_Witness ==
  /\ HampelReturned
  /\ Len(hampel_in.s) >= 4
  /\ \E i \in 2..(Len(hampel_in.s) - 1) :
       /\ NotNa(hampel_in.s[i])
       /\ hampel_out[i] = NaN
       /\ NotNa(hampel_out[i - 1])
       /\ NotNa(hampel_out[i + 1])

\* the number of values in the window of sample i
HampelWindowCount(q, i, k) ==
  Cardinality({j \in HampelWindow(i, Len(q), k) : NotNa(q[j])})

(* C5: a sample whose centered window of width 2k+1 holds fewer than 3     *)
(* values is never marked; a series shorter than 3 samples and an all-NaN  *)
(* series are returned unchanged.                                          *)
C5_HampelShortWindowKept ==
  HampelReturned =>
    LET q == hampel_in.s
    IN  /\ \A i \in 1..Len(q) :
             HampelWindowCount(q, i, hampel_in.k) < 3 => hampel_out[i] = q[i]
        /\ (Len(q) < 3 \/ \A i \in 1..Len(q) : IsNaN(q[i])) => hampel_out = q

\* a series where one sample has a short window and is kept although it
\* differs from its neighbours, while another sample of the series is marked
C5_Witness ==
  /\ HampelReturned
  /\ \E i, j \in 1..Len(hampel_in.s) :
       /\ NotNa(hampel_in.s[i])
       /\ HampelWindowCount(hampel_in.s, i, hampel_in.k) < 3
       /\ hampel_out[i] = hampel_in.s[i]
       /\ NotNa(hampel_in.s[j])
       /\ hampel_out[j] = NaN

-----------------------------------------------------------------------------
(* Specification of calculate_soh_cycles *)

MaxSohLen == 3
DefaultC0 == 5000
DefaultThreshold == 100
DefaultRollWin == 3

\* charge counter readings in uAh, battery levels in percent, currents in uA
ChargeVals == {NaN, R(-1000000), R(3500000), R(5000000)}
LevelVals == {NaN, R(50), R(100)}
CurrentVals == {NaN, R(-1800000), R(3600000)}
SohDevices == {ListedDevice, UnlistedDevice}

SohRow(d, ts, cc, cur, lvl) ==
  [device_id |-> d, created_at |-> ts, charge_counter_uah |-> cc,
   current_avg_ua |-> cur, battery_level |-> lvl]

\* a series of one device that carries a charge counter column (and a
\* current column, which the estimator must then ignore), in order of arrival
ChargeSeries(n, d, cc, lvl) ==
  [i \in 1..n |-> SohRow(d, R(600 * i), cc[i], R(3600000), lvl[i])]

\* arrival patterns of n samples: regular, with one gap over an hour, with a
\* repeated timestamp, out of order, and with gaps of exactly one hour
TimePatterns(n) ==
  {[i \in 1..n |-> R(1800 * i)],
   [i \in 1..n |-> R(IF i = 1 THEN 0 ELSE 7200 + 1800 * i)],
   [i \in 1..n |-> R(IF i = n THEN 1800 ELSE 1800 * i)],
   [i \in 1..n |-> R(1800 * (n + 1 - i))],
   [i \in 1..n |-> R(MaxGapSeconds * i)]}

\* a series of one device without charge counter
CurrentSeries(n, d, ts, cur, lvl) ==
  [i \in 1..n |-> SohRow(d, ts[i], NaN, cur[i], lvl[i])]

\* regular arrival, the timestamp of the first sample not parseable
BadFirstTimestamp(n) == [i \in 1..n |-> IF i = 1 THEN <<0, -1>> ELSE R(1800 * i)]

\* a discharge of DrainLen samples without a full charge, the counter
\* falling by step mAh per sample
DrainLen == 7
DrainSteps == {0, 100, 200}
DrainSeries(d, step) ==
  [i \in 1..DrainLen |->
    SohRow(d, R(600 * i), R(1000 * (4500 - step * i)), R(-1800000), R(90 - i))]

\* a frame whose samples belong to several devices, without charge counter
MixedSeries(n, d, ts) ==
  [i \in 1..n |-> SohRow(d[i], ts[i], NaN, R(3600000), R(50))]

SohArgs(df) ==
  [df |-> df, capacity_map |-> BATTERY_CAPACITY_SPEC, default_C0 |-> DefaultC0,
   threshold |-> DefaultThreshold, roll_win |-> DefaultRollWin]

InitSoh ==
  /\ pc = "call"
  /\ \E n \in 0..MaxSohLen, d \in SohDevices :
       \/ \E cc \in [1..n -> ChargeVals], lvl \in [1..n -> LevelVals] :
            soh_in = SohArgs(ChargeSeries(n, d, cc, lvl))
       \/ /\ n > 0
          /\ \E cur \in [1..n -> CurrentVals],
                lvl \in [1..n -> LevelVals \ {NaN}], ts \in TimePatterns(n) :
               soh_in = SohArgs(CurrentSeries(n, d, ts, cur, lvl))
       \/ /\ n = MaxSohLen
          /\ \E step \in DrainSteps : soh_in = SohArgs(AsSeq(DrainSeries(d, step)))
       \/ /\ n > 1
          /\ \E ds \in [1..n -> SohDevices],
                ts \in TimePatterns(n) \cup {BadFirstTimestamp(n)} :
               soh_in = SohArgs(MixedSeries(n, ds, ts))
  /\ soh_out = NotCalled
  /\ IdleExcept("soh")

CallSoh ==
  /\ pc = "call"
  /\ soh_out' = calculate_soh_cycles(soh_in.df, soh_in.capacity_map,
                  soh_in.default_C0, soh_in.threshold, soh_in.roll_win)
  /\ pc' = "return"
  /\ UNCHANGED soh_in
  /\ UnchangedExcept("soh")

NextSoh == CallSoh

SpecSoh == InitSoh /\ [][NextSoh]_vars

-----------------------------------------------------------------------------
(* Properties of calculate_soh_cycles *)

SohReturned == pc = "return" /\ soh_in # NotCalled

(* C1: every defined SoH of the returned frame lies in [0, 1.2], on the    *)
(* charge counter path and on the integrated current path, with or without *)
(* a nominal capacity; SoH_pct is SoH x 100 on every row (NaN where SoH is *)
(* NaN).                                                                   *)
C1_SoHInRange ==
  SohReturned =>
    /\ Len(soh_out.SoH) = Len(soh_out.df)
    /\ Len(soh_out.SoH_pct) = Len(soh_out.df)
    /\ \A i \in 1..Len(soh_out.SoH) :
         /\ NotNa(soh_out.SoH[i]) =>
              /\ IsFinite(soh_out.SoH[i])
              /\ 0 <= soh_out.SoH[i][1]
              /\ 10 * soh_out.SoH[i][1] <= 12 * soh_out.SoH[i][2]
         /\ IF IsNaN(soh_out.SoH[i]) THEN IsNaN(soh_out.SoH_pct[i])
            ELSE /\ NotNa(soh_out.SoH_pct[i])
                 /\ soh_out.SoH_pct[i][1] * soh_out.SoH[i][2]
                      = 100 * soh_out.SoH[i][1] * soh_out.SoH_pct[i][2]

\* a series whose raw ratio Ct / C0_ref leaves [0, 1.2] and is clipped
C1_Witness ==
  /\ SohReturned
  /\ \E i, j \in 1..Len(soh_out.SoH) :
       /\ NotNa(soh_out.Ct_mAh[i])
       /\ RGt(RDiv(soh_out.Ct_mAh[i], soh_out.C0_ref), Rat(12, 10))
       /\ soh_out.SoH[i] = Rat(12, 10)
       /\ soh_out.SoH_pct[i] = R(120)
       /\ NotNa(soh_out.SoH[j])
       /\ RLt(soh_out.SoH[j], R(1))

(* C2: EFC is non-decreasing along the sorted series: EFC[i] >= EFC[i-1]  *)
(* for every pair of consecutive samples, whatever the sign of the charge *)
(* counter and whatever reference capacity is derived.                    *)
C2_EFCNonDecreasing ==
  (SohReturned /\ soh_out.source # "none") =>
    \A i \in 2..Len(soh_out.EFC) : RGe(soh_out.EFC[i], soh_out.EFC[i - 1])

\* row i of the returned frame is the first of its device
FirstOfDevice(i) ==
  i = 1 \/ soh_out.df[i - 1].device_id # soh_out.df[i].device_id

\* the time from the sample before row i to row i
GapBefore(i) == RSub(soh_out.df[i].created_at, soh_out.df[i - 1].created_at)

(* C15: in the returned frame, sorted by device and timestamp, delta_t_s   *)
(* of every sample lies in [0, 3600]: it is 0 for the first sample of each *)
(* device, 0 for a gap that is negative or longer than 3600 s (reset, not  *)
(* clamped to 3600), and the gap itself otherwise.                         *)
C15_DeltaTReset ==
  (SohReturned /\ soh_out.source # "error") =>
    \A i \in 1..Len(soh_out.df) :
      /\ RGe(soh_out.delta_t_s[i], R(0))
      /\ RLe(soh_out.delta_t_s[i], R(3600))
      /\ soh_out.delta_t_s[i] =
           IF FirstOfDevice(i) \/ IsNaN(GapBefore(i)) THEN R(0)
           ELSE IF RLt(GapBefore(i), R(0)) \/ RGt(GapBefore(i), R(3600)) THEN R(0)
           ELSE GapBefore(i)

\* a frame of two devices with a gap of more than an hour inside the first
\* device, reset to 0, followed by the first sample of the second device
C15_Witness ==
  /\ SohReturned
  /\ \E i, j \in 2..Len(soh_out.df) :
       /\ ~FirstOfDevice(i)
       /\ RGt(GapBefore(i), R(3600))
       /\ soh_out.delta_t_s[i] = R(0)
       /\ FirstOfDevice(j)
       /\ soh_out.delta_t_s[j] = R(0)

\* the columns of the returned frame that the source selection reads
SohCharge == Col(soh_out.df, "charge_counter_uah")
SohCurrent == Col(soh_out.df, "current_avg_ua")

\* Q is the charge counter in mAh, up to the sign and to removed outliers
QFollowsChargeCounter ==
  \A i \in 1..Len(soh_out.df) :
    /\ IsNaN(SohCharge[i]) => IsNaN(soh_out.Q_mAh[i])
    /\ NotNa(soh_out.Q_mAh[i]) =>
         RAbs(soh_out.Q_mAh[i]) = RAbs(RDiv(SohCharge[i], R(1000)))

\* Q is the running sum of current x elapsed time, in mAh, shifted to start
\* from a minimum of 0
QFollowsCurrent ==
  /\ \A i \in 1..Len(soh_out.df) : IsNaN(soh_out.Q_mAh[i]) <=> IsNaN(SohCurrent[i])
  /\ SeriesMin(DropNa(soh_out.Q_mAh)) = R(0)
  /\ \A i, j \in 1..Len(soh_out.df) :
       (/\ i < j
        /\ NotNa(SohCurrent[i])
        /\ NotNa(SohCurrent[j])
        /\ \A l \in (i + 1)..(j - 1) : IsNaN(SohCurrent[l]))
       => RSub(soh_out.Q_mAh[j], soh_out.Q_mAh[i])
            = RDiv(RMul(RDiv(SohCurrent[j], R(1000000)), soh_out.delta_t_s[j]),
                   Rat(3600, 1000))

AllMissing(col) == \A i \in 1..Len(soh_out.df) : IsNaN(col[i])

\* the three cases of the source selection; rows is the expected content of
\* the frame returned when there is no source
SourceSelection(rows) ==
  IF AnyNotNa(SohCharge)
    THEN soh_out.source = "charge_counter" /\ QFollowsChargeCounter
  ELSE IF AnyNotNa(SohCurrent)
    THEN soh_out.source = "current_avg" /\ QFollowsCurrent
  ELSE /\ soh_out.source = "none"
       /\ soh_out.df = rows
       /\ Len(soh_out.Q_mAh) = Len(soh_in.df)
       /\ AllMissing(soh_out.Q_mAh)
       /\ AllMissing(soh_out.Ct_mAh)
       /\ AllMissing(soh_out.SoH)
       /\ AllMissing(soh_out.SoH_smooth)
       /\ AllMissing(soh_out.EFC)

-----------------------------------------------------------------------------
(* Specification of add_per_device_zscore: one call on a table of up to   *)
(* MaxZLen rows of two devices.                                            *)

MaxZLen == 3

\* values with a 4-bit mantissa; 5 + 5 + 5 = 15 is one of them and
\* 7 + 7 + 7 = 21 is not (with 5 bits, 11 + 11 + 11 = 33 is not)
TempVals == {NaN, R(5), R(7), R(11)}
EfcVals == {NaN, R(12)}
ZDevices == {"dev-a", "dev-b"}
ZColumnSets == SUBSET {"batt_temp_c", "EFC"}

ZRow(cs, d, temp, efc) ==
  [device_id |-> d,
   batt_temp_c |-> IF "batt_temp_c" \in cs THEN temp ELSE NaN,
   EFC |-> IF "EFC" \in cs THEN efc ELSE NaN]

ZTable(cs, n, d, temp, efc) ==
  [columns |-> cs, rows |-> AsSeq([i \in 1..n |-> ZRow(cs, d[i], temp[i], efc[i])])]

InitZ ==
  /\ pc = "call"
  /\ \E n \in 0..MaxZLen, cs \in ZColumnSets :
     \E d \in [1..n -> ZDevices],
        temp \in [1..n -> IF "batt_temp_c" \in cs THEN TempVals ELSE {NaN}],
        efc \in [1..n -> IF "EFC" \in cs THEN EfcVals ELSE {NaN}] :
       z_in = [df |-> ZTable(cs, n, d, temp, efc), cols |-> ZCols]
  /\ z_out = NotCalled
  /\ IdleExcept("zscore")

CallZ ==
  /\ pc = "call"
  /\ z_out' = add_per_device_zscore(z_in.df, z_in.cols)
  /\ pc' = "return"
  /\ UNCHANGED z_in
  /\ UnchangedExcept("zscore")

NextZ == CallZ

SpecZ == InitZ /\ [][NextZ]_vars

-----------------------------------------------------------------------------
(* Properties of add_per_device_zscore *)

ZReturned == pc = "return" /\ z_in # NotCalled

\* the population standard deviation of x is 0 or undefined: x holds at
\* most one distinct value (one row, a constant column, or nothing valid)
StdZeroOrUndefined(x) == Cardinality(Range(DropNa(x))) <= 1

(* C6: for every device and every base column the table has, if the       *)
(* device's values have population standard deviation 0 or undefined, the *)
(* z column is exactly 0 on every row of the device; otherwise it is      *)
(* (x - mean) / population std computed from the rows of that device.     *)
C6_ZScorePerDevice ==
  ZReturned =>
    /\ DOMAIN z_out.z = {ZCols[k] : k \in 1..Len(ZCols)} \cap z_in.df.columns
    /\ \A c \in DOMAIN z_out.z : \A i \in 1..Len(z_in.df.rows) :
         LET ix == GroupRows(z_in.df, z_in.df.rows[i].device_id)
             x == GroupCol(z_in.df, ix, c)
         IN IF StdZeroOrUndefined(x) THEN z_out.z[c][i] = R(0)
            ELSE z_out.z[c][i] =
                   FDiv(FSub(z_in.df.rows[i][c], SeriesMean(x)), SeriesStd(x, 0))

-----------------------------------------------------------------------------
(* Specification of build_windows: one call on a feature table sorted by   *)
(* device and time.  Small tables take every window size from -1 on; long  *)
(* tables take the configured WINDOW_SIZE.                                 *)

MaxWinLen == 3
WINDOW_SIZE == 24
LongLens == {20, 23, 24, 25, 30}
WinSizes == -1..(MaxWinLen + 1)
WinDevices == <<"dev-a", "dev-b">>
WinColumnSets == SUBSET {"SoH_smooth", "SoH_pct", "EFC"}
TempChoices == {R(25), R(31)}

\* row r (from 1) of a table whose first k rows belong to the first device;
\* every column but the temperature is a function of the position
WinRow(r, k, temp) ==
  [device_id |-> WinDevices[IF r <= k THEN 1 ELSE 2],
   created_at |-> R(600 * r),
   batt_temp_c |-> temp,
   soh_trend |-> Rat(-r, 1000),
   SoH_smooth |-> IF r % 4 = 0 THEN NaN ELSE Rat(1000 - r, 1000),
   SoH_pct |-> Rat(990 - r, 10),
   EFC |-> Rat(r, 2)]

WinTable(cs, n, k, temp) ==
  [columns |-> cs, rows |-> AsSeq([r \in 1..n |-> WinRow(r, k, temp[r])])]

WinArgs(df, win_size) ==
  [df_feat |-> df, feature_cols |-> FeatureCols, win_size |-> win_size,
   soh_true_col |-> "SoH_smooth"]

InitWin ==
  /\ pc = "call"
  /\ \E cs \in WinColumnSets :
       \/ \E n \in 0..MaxWinLen, w \in WinSizes :
          \E k \in 0..n, temp \in [1..n -> TempChoices] :
            win_in = WinArgs(WinTable(cs, n, k, temp), w)
       \/ \E n \in LongLens :
            win_in = WinArgs(WinTable(cs, n, n, [r \in 1..n |-> R(20 + r)]),
                             WINDOW_SIZE)
  /\ win_out = NotCalled
  /\ IdleExcept("windows")

CallWin ==
  /\ pc = "call"
  /\ win_out' = build_windows(win_in.df_feat, win_in.feature_cols,
                  win_in.win_size, win_in.soh_true_col)
  /\ pc' = "return"
  /\ UNCHANGED win_in
  /\ UnchangedExcept("windows")

NextWin == CallWin

SpecWin == InitWin /\ [][NextWin]_vars

-----------------------------------------------------------------------------
(* Properties of build_windows *)

WinReturned == pc = "return" /\ win_in # NotCalled

\* a feature table carries a SoH column to take the true SoH from
HasSoHTrue(df) == "SoH_smooth" \in df.columns \/ "SoH_pct" \in df.columns

WinN == Len(win_in.df_feat.rows)

(* C7: for a feature table of n rows and win_size >= 1 there are exactly   *)
(* max(0, n - win_size) windows, each of win_size rows, and as many        *)
(* timestamps, soh_true values and EFC values; none when n <= win_size;    *)
(* 30 rows with win_size 24 give 6 windows and 20 rows give 0.             *)
C7_WindowCount ==
  (WinReturned /\ HasSoHTrue(win_in.df_feat) /\ win_in.win_size >= 1) =>
    /\ win_out.ok
    /\ Len(win_out.X) = Max2(0, WinN - win_in.win_size)
    /\ \A j \in 1..Len(win_out.X) : Len(win_out.X[j]) = win_in.win_size
    /\ Len(win_out.timestamps) = Len(win_out.X)
    /\ Len(win_out.soh_true) = Len(win_out.X)
    /\ Len(win_out.efc) = Len(win_out.X)
    /\ (WinN <= win_in.win_size) => win_out.X = <<>>
    /\ (WinN = 30 /\ win_in.win_size = 24) => Len(win_out.X) = 6
    /\ (WinN = 20 /\ win_in.win_size = 24) => Len(win_out.X) = 0

\* the 30-row table with win_size 24 and its 6 windows
C7_Witness ==
  /\ WinReturned
  /\ WinN = 30
  /\ win_in.win_size = WINDOW_SIZE
  /\ win_out.ok
  /\ Len(win_out.X) = 6
  /\ Len(win_out.efc) = 6

\* the feature vector of row i (from 0), read from the input table
FeatureRow(i) ==
  <<win_in.df_feat.rows[i + 1].batt_temp_c, win_in.df_feat.rows[i + 1].soh_trend>>

\* the true SoH of row i (from 0) in percent
SoHTrueOfRow(i) ==
  IF "SoH_smooth" \in win_in.df_feat.columns
    THEN RMul(win_in.df_feat.rows[i + 1].SoH_smooth, R(100))
    ELSE win_in.df_feat.rows[i + 1].SoH_pct

-----------------------------------------------------------------------------
(* Specification of estimate_rul_from_soh: one call with a predicted SoH   *)
(* and a configuration.                                                    *)

SohPredVals ==
  {NaN, R(0), Rat(1, 2), Rat(5, 8), Rat(3, 4), Rat(7, 8), R(1), R(80), R(104)}
SohEolVals == {Rat(5, 8), Rat(3, 4), R(80)}
KGlobalVals == {Rat(-1, 8), R(0), Rat(1, 64), Rat(3, 8), R(5)}
HoursPerCycleVals == {R(-6), R(0), R(7), R(24)}

RulConfigs ==
  [k_global : KGlobalVals, soh_eol : SohEolVals, hours_per_cycle : HoursPerCycleVals]

InitRul ==
  /\ pc = "call"
  /\ \E soh_pred \in SohPredVals, cfg \in RulConfigs :
       rul_in = [soh_pred |-> soh_pred, cfg |-> cfg]
  /\ rul_out = NotCalled
  /\ IdleExcept("rul")

CallRul ==
  /\ pc = "call"
  /\ rul_out' = estimate_rul_from_soh(rul_in.soh_pred, rul_in.cfg)
  /\ pc' = "return"
  /\ UNCHANGED rul_in
  /\ UnchangedExcept("rul")

NextRul == CallRul

SpecRul == InitRul /\ [][NextRul]_vars

-----------------------------------------------------------------------------
(* Properties of estimate_rul_from_soh *)

RulReturned == pc = "return" /\ rul_in # NotCalled

\* the configurations the estimator is specified for
RulConfigValid ==
  RGt(rul_in.cfg.k_global, R(0)) /\ RGe(rul_in.cfg.hours_per_cycle, R(0))

(* C9: with k_global > 0 and hours_per_cycle >= 0 no returned value is     *)
(* negative; when soh_pred <= soh_eol all four are exactly 0; otherwise    *)
(* rul_cycles = (soh_pred - soh_eol) / k_global, rul_hours = rul_cycles x  *)
(* hours_per_cycle, rul_months = rul_hours / 24 / 30 and rul_years =       *)
(* rul_hours / 24 / 365.                                                   *)
C9_RulNonNegative ==
  (RulReturned /\ RulConfigValid) =>
    /\ ~rul_out.raised
    /\ ~RLt(rul_out.rul_cycles, R(0))
    /\ ~RLt(rul_out.rul_hours, R(0))
    /\ ~RLt(rul_out.rul_months, R(0))
    /\ ~RLt(rul_out.rul_years, R(0))
    /\ IF RLe(rul_in.soh_pred, rul_in.cfg.soh_eol)
         THEN /\ rul_out.rul_cycles = R(0)
              /\ rul_out.rul_hours = R(0)
              /\ rul_out.rul_months = R(0)
              /\ rul_out.rul_years = R(0)
         ELSE /\ rul_out.rul_cycles =
                   FDiv(FSub(rul_in.soh_pred, rul_in.cfg.soh_eol), rul_in.cfg.k_global)
              /\ rul_out.rul_hours =
                   FMul(rul_out.rul_cycles, rul_in.cfg.hours_per_cycle)
              /\ rul_out.rul_months = FDiv(FDiv(rul_out.rul_hours, R(24)), R(30))
              /\ rul_out.rul_years = FDiv(FDiv(rul_out.rul_hours, R(24)), R(365))

\* a prediction below the end-of-life level, floored at 0 cycles
C9_Witness ==
  /\ RulReturned
  /\ RulConfigValid
  /\ RLt(rul_in.soh_pred, rul_in.cfg.soh_eol)
  /\ RGt(rul_in.cfg.hours_per_cycle, R(0))
  /\ ~rul_out.raised
  /\ rul_out.rul_cycles = R(0)
  /\ rul_out.rul_years = R(0)

-----------------------------------------------------------------------------
(* Specification of calculate_throughput: one call on up to MaxThrLen      *)
(* samples of two devices in any order of arrival, with missing counters,  *)
(* missing or repeated timestamps, and on the three-sample series          *)
(* tx = [0, 1000, 3000], rx = [0, 500, 1500] at 0, 10 and 20 seconds.      *)

MaxThrLen == 3

ThrTimes == {NaN, R(0), R(10)}
ThrCounters == {<<R(0), R(0)>>, <<R(1000), R(500)>>, <<NaN, R(500)>>}

ThrRow(i, d, ts, tx, rx) ==
  [index |-> i, device_id |-> d, created_at |-> ts,
   tx_total_bytes |-> tx, rx_total_bytes |-> rx]

\* the three samples of the reference series, by position in time
RefSample(i, k) ==
  ThrRow(i, ListedDevice, R(10 * (k - 1)),
         R(IF k = 1 THEN 0 ELSE IF k = 2 THEN 1000 ELSE 3000),
         R(IF k = 1 THEN 0 ELSE IF k = 2 THEN 500 ELSE 1500))

Permutations3 == {f \in [1..3 -> 1..3] : {f[i] : i \in 1..3} = 1..3}

InitThr ==
  /\ pc = "call"
  /\ \/ \E n \in 0..MaxThrLen :
        \E d \in [1..n -> SohDevices], ts \in [1..n -> ThrTimes],
           c \in [1..n -> ThrCounters] :
          thr_in = AsSeq([i \in 1..n |-> ThrRow(i, d[i], ts[i], c[i][1], c[i][2])])
     \/ \E f \in Permutations3 :
          thr_in = AsSeq([i \in 1..3 |-> RefSample(i, f[i])])
     \/ \E f \in Permutations3 :
          thr_in = AsSeq([i \in 1..3 |->
                     IF f[i] = 3 THEN ThrRow(i, ListedDevice, Unparseable, R(0), R(0))
                     ELSE RefSample(i, f[i])])
  /\ thr_out = NotCalled
  /\ IdleExcept("throughput")

CallThr ==
  /\ pc = "call"
  /\ thr_out' = calculate_throughput(thr_in)
  /\ pc' = "return"
  /\ UNCHANGED thr_in
  /\ UnchangedExcept("throughput")

NextThr == CallThr

SpecThr == InitThr /\ [][NextThr]_vars

-----------------------------------------------------------------------------
(* Properties of calculate_throughput *)

ThrReturned == pc = "return" /\ thr_in # NotCalled /\ thr_out.ok

\* the samples that carry both byte counters
CounterSamples == {i \in 1..Len(thr_in) : HasCounters(thr_in[i])}

\* sample a comes before sample b in its device's series: earlier in time,
\* a missing time last, arrival order among equals
SampleBefore(a, b) ==
  /\ thr_in[a].device_id = thr_in[b].device_id
  /\ \/ NotNa(thr_in[a].created_at) /\ IsNaN(thr_in[b].created_at)
     \/ RLt(thr_in[a].created_at, thr_in[b].created_at)
     \/ thr_in[a].created_at = thr_in[b].created_at /\ a < b

\* a and b are consecutive samples of one device
Consecutive(a, b) ==
  /\ a \in CounterSamples
  /\ b \in CounterSamples
  /\ SampleBefore(a, b)
  /\ ~\E c \in CounterSamples : SampleBefore(a, c) /\ SampleBefore(c, b)

\* the output rows of the input sample i
RowsOf(i) == {j \in 1..Len(thr_out.rows) : thr_out.rows[j].index = i}

C11_NoNonPositiveDeltaT ==
  ThrReturned =>
    \A j \in 1..Len(thr_out.rows) :
      /\ RGt(thr_out.rows[j].delta_t, R(0))
      /\ IsFinite(thr_out.rows[j].throughput_upload_mbps)
      /\ IsFinite(thr_out.rows[j].throughput_download_mbps)
      /\ IsFinite(thr_out.rows[j].throughput_total_mbps)

-----------------------------------------------------------------------------
(* Specification of calculate_throughput_energy_and_bot: one call on a     *)
(* batch of up to MaxBotLen samples of two devices.                        *)

MaxBotLen == 3

BotTimes == {R(0), R(10), R(20)}
BotCounters == {<<R(0), R(0)>>, <<R(1000), R(250)>>, <<NaN, R(250)>>}

\* the battery voltage in mV that the samples of device d report
BotVoltage(d) == IF d = ListedDevice THEN R(4000) ELSE R(2000)

BotRow(i, d, ts, tx, rx) ==
  [index |-> i, device_id |-> d, created_at |-> ts,
   tx_total_bytes |-> tx, rx_total_bytes |-> rx,
   batt_voltage_mv |-> BotVoltage(d), current_avg_ua |-> R(500000),
   batt_temp_c |-> R(30)]

InitBot ==
  /\ pc = "call"
  /\ \/ \E n \in 0..MaxBotLen :
        \E d \in [1..n -> SohDevices], ts \in [1..n -> BotTimes],
           c \in [1..n -> BotCounters] :
          bot_in = AsSeq([i \in 1..n |-> BotRow(i, d[i], ts[i], c[i][1], c[i][2])])
     \/ \E d \in SohDevices :
          bot_in = <<BotRow(1, d, R(0), R(0), R(0)),
                     BotRow(2, d, Unparseable, R(0), R(0))>>
  /\ bot_out = NotCalled
  /\ IdleExcept("bot")

CallBot ==
  /\ pc = "call"
  /\ bot_out' = calculate_throughput_energy_and_bot(bot_in)
  /\ pc' = "return"
  /\ UNCHANGED bot_in
  /\ UnchangedExcept("bot")

NextBot == CallBot

SpecBot == InitBot /\ [][NextBot]_vars

-----------------------------------------------------------------------------
(* Properties of calculate_throughput_energy_and_bot *)

BotReturned == pc = "return" /\ bot_in # NotCalled /\ bot_out.ok

(* C12: a row whose total throughput is exactly zero has its throughput    *)
(* replaced by NaN before the division, so its energy_per_bit_tx, _rx,     *)
(* _avg and BoT are missing, never infinite; a row with non-zero           *)
(* throughput has energy_per_bit = alpha / throughput_bps + beta with the  *)
(* tx and the rx constants, averaged and scaled by 1e-9.                   *)
C12_ZeroThroughputMissing ==
  BotReturned =>
    \A j \in 1..Len(bot_out.rows) :
      LET r == bot_out.rows[j]
      IN IF r.throughput_total_mbps = R(0)
           THEN /\ IsNaN(r.throughput_total_bps)
                /\ IsNaN(r.energy_per_bit_tx)
                /\ IsNaN(r.energy_per_bit_rx)
                /\ IsNaN(r.energy_per_bit_tx_J.m)
                /\ IsNaN(r.energy_per_bit_rx_J.m)
                /\ IsNaN(r.energy_per_bit_avg_J.m)
                /\ IsNaN(r.BoT_mAh_per_Gbps)
           ELSE /\ r.energy_per_bit_tx =
                     RAdd(RDiv(Rat(446, 1), r.throughput_total_bps),
                          Rat(3381132, 1000000))
                /\ r.energy_per_bit_rx =
                     RAdd(RDiv(Rat(3575443, 10000), r.throughput_total_bps),
                          Rat(1969068, 1000000))
                /\ r.energy_per_bit_avg_J.e = -9
                /\ r.energy_per_bit_avg_J.m =
                     RDiv(RAdd(r.energy_per_bit_tx, r.energy_per_bit_rx), R(2))
                /\ r.energy_per_bit_tx # PInf
                /\ r.energy_per_bit_rx # PInf

\* a batch with a row of zero throughput (no bytes moved in 10 s) and a row
\* of 1000 bit/s with its energy per bit
C12_Witness ==
  /\ BotReturned
  /\ \E j, k \in 1..Len(bot_out.rows) :
       /\ bot_out.rows[j].throughput_total_mbps = R(0)
       /\ IsNaN(bot_out.rows[j].BoT_mAh_per_Gbps)
       /\ bot_out.rows[k].throughput_total_bps = R(1000)
       /\ bot_out.rows[k].energy_per_bit_tx = Rat(3827132, 1000000)
       /\ IsFinite(bot_out.rows[k].BoT_mAh_per_Gbps)

-----------------------------------------------------------------------------
(* Specification of calculate_soh_cycles on a clean full-charge cycle: one *)
(* sample on the way up, up to MaxFullLen samples at 100 %, one sample on  *)
(* the way down.                                                           *)

MaxFullLen == 3

\* charge counter readings of the samples at 100 %, in uAh
CycleChargeVals == {R(3900000), R(4000000), R(4100000)}
\* the level of the sample on the way up: below the cut, or just above it
CycleRiseLevels == {R(80), R(99)}

CycleSeries(k, d, up, cc) ==
  [i \in 1..(k + 2) |->
    IF i = 1 THEN SohRow(d, R(600), R(3000000), R(3600000), up)
    ELSE IF i = k + 2 THEN SohRow(d, R(600 * i), R(3600000), R(-1800000), R(90))
    ELSE SohRow(d, R(600 * i), cc[i - 1], R(3600000), R(100))]

InitCycle ==
  /\ pc = "call"
  /\ \E k \in 1..MaxFullLen, d \in SohDevices, up \in CycleRiseLevels :
       \E cc \in [1..k -> CycleChargeVals] :
         soh_in = SohArgs(CycleSeries(k, d, up, cc))
  /\ soh_out = NotCalled
  /\ IdleExcept("soh")

SpecCycle == InitCycle /\ [][NextSoh]_vars

\* the rows of the returned frame at or above the full-charge cut
CycleFullRows ==
  {i \in 1..Len(soh_out.df) : RGe(soh_out.df[i].battery_level, R(99))}
\* the charge values of those rows, in order
CycleBlockValues ==
  DropNa(AsSeq([i \in 1..Len(soh_out.Q_mAh) |->
    IF i \in CycleFullRows THEN soh_out.Q_mAh[i] ELSE NaN]))
\* the first row holding the largest of them
CyclePeakRow ==
  CHOOSE i \in CycleFullRows :
    /\ soh_out.Q_mAh[i] = SeriesMax(CycleBlockValues)
    /\ \A j \in CycleFullRows : soh_out.Q_mAh[j] = soh_out.Q_mAh[i] => i <= j
\* the clip of lines 126-129 applied to one value
CycleNominalClip(x) ==
  Let(CapacityGet(soh_in.capacity_map, soh_out.df[1].device_id), LAMBDA nom :
    IF nom = None THEN x
    ELSE Clip(x, RMul(Rat(70, 100), nom), RMul(Rat(115, 100), nom)))

\* one block, one estimate written at the peak row and carried forward, and
\* the SoH of every row derived from it
CycleOneEstimate(ct) ==
  /\ Cardinality({soh_out.full_block_id[i] : i \in CycleFullRows}) = 1
  /\ \A i \in 1..Len(soh_out.df) :
       /\ soh_out.full_block_id[i] # 0 <=> i \in CycleFullRows
       /\ soh_out.Ct_mAh[i] = IF i < CyclePeakRow THEN NaN ELSE ct
       /\ soh_out.SoH[i] =
            Clip(RDiv(soh_out.Ct_mAh[i], soh_out.C0_ref), R(0), Rat(12, 10))

CycleReturned == SohReturned /\ soh_out.source = "charge_counter"

-----------------------------------------------------------------------------
(* Specification of calculate_throughput_energy_and_bot on a batch of two  *)
(* devices, each with up to MaxDeviceLen samples 10 s apart.               *)

MaxDeviceLen == 2

\* the samples of device d, numbered from first
DeviceBatch(d, first, c) ==
  [i \in 1..Len(c) |-> BotRow(first + i - 1, d, R(10 * (i - 1)), c[i][1], c[i][2])]

InitBatch ==
  /\ pc = "call"
  /\ \E n1, n2 \in 0..MaxDeviceLen :
       \E c1 \in [1..n1 -> BotCounters], c2 \in [1..n2 -> BotCounters] :
         bot_in = AsSeq(DeviceBatch(ListedDevice, 1, c1))
                    \o AsSeq(DeviceBatch(UnlistedDevice, n1 + 1, c2))
  /\ bot_out = NotCalled
  /\ IdleExcept("bot")

SpecBatch == InitBatch /\ [][NextBot]_vars

\* the rows of one device, in the order of the frame
RowsOfDevice(rows, d) == SelectSeq(rows, LAMBDA r : r.device_id = d)

(* C14: every value emitted for the samples of one device in a batch of    *)
(* several devices (throughput, energy per bit, BoT) equals the value      *)
(* emitted when the samples of that device are processed alone.            *)
C14_DeviceIsolation ==
  BotReturned =>
    \A d \in SohDevices :
      Let(calculate_throughput_energy_and_bot(RowsOfDevice(bot_in, d)), LAMBDA alone :
        /\ alone.ok
        /\ RowsOfDevice(bot_out.rows, d) = alone.rows)

\* the batch without the samples whose timestamp cannot be parsed
ParseableRows(rows) == SelectSeq(rows, LAMBDA r : r.created_at # Unparseable)

(* C16: a sample whose timestamp cannot be parsed is dropped and the rest  *)
(* of the batch is processed normally: the throughput/energy calculator    *)
(* returns a result, the result is the one of the batch without that       *)
(* sample, and no returned row has an undefined timestamp.                 *)
C16_BadTimestampDropped ==
  (pc = "return" /\ bot_in # NotCalled) =>
    /\ bot_out.ok
    /\ bot_out = calculate_throughput_energy_and_bot(ParseableRows(bot_in))
    /\ \A j \in 1..Len(bot_out.rows) : NotNa(bot_out.rows[j].created_at)

-----------------------------------------------------------------------------
(* Specification of calculate_soh_cycles on series of up to MaxLevelLen    *)
(* samples with battery levels around the full-charge cut, under several   *)
(* configured thresholds.                                                  *)

MaxLevelLen == 3

BlockLevels == {NaN, R(97), R(98), R(99), R(100)}
BlockThresholds == {50, 99, 100, 102}

\* a series with a rising charge counter and the given battery levels
LevelSeries(n, lvl) ==
  [i \in 1..n |->
    SohRow(ListedDevice, R(600 * i), R(3500000 + 100000 * i), R(3600000), lvl[i])]

InitLevels ==
  /\ pc = "call"
  /\ \E n \in 1..MaxLevelLen, threshold \in BlockThresholds :
       \E lvl \in [1..n -> BlockLevels] :
         soh_in = [SohArgs(AsSeq(LevelSeries(n, lvl))) EXCEPT !.threshold = threshold]
  /\ soh_out = NotCalled
  /\ IdleExcept("soh")

SpecLevels == InitLevels /\ [][NextSoh]_vars

\* the cut the configured threshold stands for
LevelCut == IF soh_in.threshold - 1 > 98 THEN soh_in.threshold - 1 ELSE 98

\* row i of the returned frame is at or above the cut
Flagged(i) ==
  /\ NotNa(soh_out.df[i].battery_level)
  /\ RGe(soh_out.df[i].battery_level, R(LevelCut))

(* C18: a sample is flagged full exactly when its battery_level is at      *)
(* least max(threshold - 1, 98), a missing level never; the flagged        *)
(* samples carry a block id and the others none; the samples of a maximal  *)
(* run of flagged samples share one id; the ids strictly increase from     *)
(* each block to the next.                                                 *)
C18_FullBlocks ==
  SohReturned =>
    /\ LevelCut >= 98
    /\ \A i \in 1..Len(soh_out.df) : soh_out.full_block_id[i] # 0 <=> Flagged(i)
    /\ \A i \in 2..Len(soh_out.df) :
         (Flagged(i - 1) /\ Flagged(i)) =>
           soh_out.full_block_id[i - 1] = soh_out.full_block_id[i]
    /\ \A i, j \in 1..Len(soh_out.df) :
         (i < j /\ Flagged(i) /\ Flagged(j)
            /\ \E l \in (i + 1)..(j - 1) : ~Flagged(l))
         => soh_out.full_block_id[i] < soh_out.full_block_id[j]

\* threshold 50: a sample at 97 % between two flagged samples is not
\* flagged, and the two blocks around it get increasing ids
C18_Witness ==
  /\ SohReturned
  /\ soh_in.threshold = 50
  /\ Len(soh_out.df) = 3
  /\ soh_out.df[2].battery_level = R(97)
  /\ soh_out.full_block_id[2] = 0
  /\ soh_out.full_block_id[1] # 0
  /\ soh_out.full_block_id[1] < soh_out.full_block_id[3]

-----------------------------------------------------------------------------
(* Properties of the capacity estimate Ct of calculate_soh_cycles *)

\* the capacity candidates of the returned frame before the fallback, the
\* clip and the forward fill (the state of Ct_mAh after line 121)
SohCandidates == Ct_candidates(soh_out.Q_mAh, soh_out.full_block_id)

\* the rows of the block of row i, and those of them with a charge value
RowsOfBlock(i) ==
  {j \in 1..Len(soh_out.df) : soh_out.full_block_id[j] = soh_out.full_block_id[i]}
ValidRowsOfBlock(i) == {j \in RowsOfBlock(i) : NotNa(soh_out.Q_mAh[j])}
ValuesOfBlock(i) ==
  DropNa(AsSeq([j \in 1..Len(soh_out.df) |->
    IF j \in RowsOfBlock(i) THEN soh_out.Q_mAh[j] ELSE NaN]))

\* the largest charge value of the last six rows up to row i, when at least
\* three of them hold a value
SixSampleMax(i) ==
  LET w == {j \in 1..i : j > i - 6 /\ NotNa(soh_out.Q_mAh[j])}
  IN IF Cardinality(w) < 3 THEN NaN
     ELSE soh_out.Q_mAh[CHOOSE j \in w :
            \A l \in w : RLe(soh_out.Q_mAh[l], soh_out.Q_mAh[j])]

\* the statement of C19 about the candidates cand
CandidatesPerBlock(cand) ==
  /\ \A i \in 1..Len(soh_out.df) :
       IF soh_out.full_block_id[i] = 0 THEN IsNaN(cand[i])
       ELSE IF ValidRowsOfBlock(i) = {}
         THEN \A j \in RowsOfBlock(i) : IsNaN(cand[j])
       ELSE \E j \in ValidRowsOfBlock(i) :
              /\ \A l \in RowsOfBlock(i) : NotNa(cand[l]) <=> l = j
              /\ \A l \in ValidRowsOfBlock(i) :
                   RLe(soh_out.Q_mAh[l], soh_out.Q_mAh[j])
              /\ cand[j] = Percentile(ValuesOfBlock(i), 95, 100)
  /\ soh_out.Ct_mAh =
       IF \E i \in 1..Len(soh_out.df) : NotNa(cand[i])
         THEN FFill(AsSeq([i \in 1..Len(soh_out.df) |-> CycleNominalClip(cand[i])]))
         ELSE FFill(AsSeq([i \in 1..Len(soh_out.df) |->
                      CycleNominalClip(SixSampleMax(i))]))

(* C19: each full-charge block with a valid charge value has exactly one   *)
(* row with a capacity candidate before the forward fill, the row of the   *)
(* block's maximum charge value, and the candidate is the 95th percentile  *)
(* of the block's valid charge values; a block without valid charge value  *)
(* and the rows outside blocks have none; the rolling maximum (window 6,   *)
(* at least 3 values) makes the returned Ct only when there is no          *)
(* candidate at all.                                                       *)
C19_OneCandidatePerBlock ==
  (SohReturned /\ soh_out.source \in {"charge_counter", "current_avg"}) =>
    Let(SohCandidates, LAMBDA cand : CandidatesPerBlock(cand))

\* a block that holds two different charge values: the row of the larger
\* one gets the candidate, below that value, and the other row gets none
C19_Witness ==
  /\ SohReturned
  /\ \E i, j \in 1..Len(soh_out.df) :
       /\ i # j
       /\ soh_out.full_block_id[i] # 0
       /\ soh_out.full_block_id[i] = soh_out.full_block_id[j]
       /\ NotNa(SohCandidates[i])
       /\ IsNaN(SohCandidates[j])
       /\ NotNa(soh_out.Q_mAh[j])
       /\ RLt(SohCandidates[i], soh_out.Q_mAh[i])

\* the nominal capacity the call looks up (lines 62-63)
SohNominal == CapacityGet(soh_in.capacity_map, soh_out.df[1].device_id)

\* the rows that hold a capacity value before the forward fill: the block
\* candidates, or the rolling maxima when no block gave a candidate
CandidateRows ==
  Let(SohCandidates, LAMBDA cand :
    IF \E j \in 1..Len(soh_out.df) : NotNa(cand[j])
      THEN {j \in 1..Len(soh_out.df) : NotNa(cand[j])}
      ELSE {j \in 1..Len(soh_out.df) : NotNa(SixSampleMax(j))})

\* the last of the rows at or before row i, 0 when there is none
LastRowUpTo(rows, i) ==
  IF \E j \in rows : j <= i
    THEN CHOOSE j \in rows : j <= i /\ \A l \in rows : l <= i => l <= j
    ELSE 0

\* the statement of C20 for the candidate rows
CtCarriedFrom(rows) ==
  \A i \in 1..Len(soh_out.df) :
    /\ (SohNominal # None /\ NotNa(soh_out.Ct_mAh[i])) =>
         /\ RGe(soh_out.Ct_mAh[i], RMul(Rat(70, 100), SohNominal))
         /\ RLe(soh_out.Ct_mAh[i], RMul(Rat(115, 100), SohNominal))
    /\ IF LastRowUpTo(rows, i) = 0 THEN IsNaN(soh_out.Ct_mAh[i])
       ELSE /\ NotNa(soh_out.Ct_mAh[i])
            /\ soh_out.Ct_mAh[i] = soh_out.Ct_mAh[LastRowUpTo(rows, i)]

(* C20: when the nominal capacity of the device is known, every defined    *)
(* Ct_mAh of the returned frame lies in [0.70, 1.15] x nominal; Ct_mAh is  *)
(* undefined before the first capacity candidate and, from each candidate  *)
(* to the next, constant at the value it has on the candidate's row.       *)
C20_CtBoundedAndCarried ==
  (SohReturned /\ soh_out.source \in {"charge_counter", "current_avg"}) =>
    Let(CandidateRows, LAMBDA rows : CtCarriedFrom(rows))

\* a listed device whose only candidate exceeds 1.15 x nominal: the row
\* before it has no Ct, the candidate's row holds 1.15 x nominal and the row
\* after it the same value
C20_Witness ==
  /\ SohReturned
  /\ Len(soh_out.df) = 3
  /\ SohNominal # None
  /\ IsNaN(soh_out.Ct_mAh[1])
  /\ RGt(SohCandidates[2], RMul(Rat(115, 100), SohNominal))
  /\ soh_out.Ct_mAh[2] = RMul(Rat(115, 100), SohNominal)
  /\ IsNaN(SohCandidates[3])
  /\ soh_out.Ct_mAh[3] = soh_out.Ct_mAh[2]

-----------------------------------------------------------------------------
(* Properties of the reference capacity and of the cycle accumulator *)

\* the valid Ct values of the returned frame, and the 95th percentile of
\* those not above their 99th percentile
SohValidCt == DropNa(soh_out.Ct_mAh)
SohTrimmedPercentile ==
  Let(Percentile(SohValidCt, 99, 100), LAMBDA hi :
    Percentile(SelectSeq(SohValidCt, LAMBDA c : RLe(c, hi)), 95, 100))

\* the choice of C0_ref as the claim words it
C0RefAsStated ==
  soh_out.C0_ref =
    IF SohValidCt = <<>> THEN R(soh_in.default_C0)
    ELSE IF SohNominal # None
      THEN Clip(SohTrimmedPercentile, RMul(Rat(95, 100), SohNominal),
                                      RMul(Rat(105, 100), SohNominal))
    ELSE SohTrimmedPercentile

C0RefPositive == RGt(soh_out.C0_ref, R(0))

(* C21: C0_ref is the 95th percentile of the valid Ct values not above     *)
(* their 99th percentile, clamped to [0.95, 1.05] x nominal when the       *)
(* device has a nominal capacity and unclamped when it has none; it is the *)
(* default capacity when there is no valid Ct; it is strictly positive.    *)
C21_C0RefChoice ==
  (SohReturned /\ soh_out.source \in {"charge_counter", "current_avg"}) =>
    (C0RefAsStated /\ C0RefPositive)

\* the change of Q at row i of the returned frame is undefined: first row,
\* or a missing value on either side
DeltaQUndefined(i) ==
  i = 1 \/ IsNaN(soh_out.Q_mAh[i]) \/ IsNaN(soh_out.Q_mAh[i - 1])

SohDeltaQ(i) == RSub(soh_out.Q_mAh[i], soh_out.Q_mAh[i - 1])

\* max(-delta_Q, 0) for every row, and its 99th percentile
SohRawDischarge ==
  AsSeq([i \in 1..Len(soh_out.df) |->
    IF DeltaQUndefined(i) \/ RGe(SohDeltaQ(i), R(0)) THEN R(0)
    ELSE RNeg(SohDeltaQ(i))])

\* the statement of C22 for the raw discharge raw and its percentile q99
DischargeCapped(raw, q99) ==
  \A i \in 1..Len(soh_out.df) :
    /\ soh_out.discharge_mAh[i] = IF RLt(raw[i], q99) THEN raw[i] ELSE q99
    /\ RLe(soh_out.discharge_mAh[i], q99)
    /\ (i > 1 /\ raw[i] = R(0)) => soh_out.EFC[i] = soh_out.EFC[i - 1]
    /\ (i > 1 /\ RGt(soh_out.C0_ref, R(0))) =>
         RSub(soh_out.EFC[i], soh_out.EFC[i - 1])
           = RDiv(soh_out.discharge_mAh[i], soh_out.C0_ref)

(* C22: a sample whose delta_Q is >= 0 or undefined contributes zero       *)
(* discharge and leaves EFC unchanged; a sample with delta_Q < 0           *)
(* contributes min(-delta_Q, q99), q99 being the 99th percentile of the    *)
(* discharge values of the series, so no sample contributes more than q99. *)
C22_DischargeContribution ==
  (SohReturned /\ soh_out.source \in {"charge_counter", "current_avg"}) =>
    Let(SohRawDischarge, LAMBDA raw :
      Let(Percentile(raw, 99, 100), LAMBDA q99 : DischargeCapped(raw, q99)))

\* a series with a charging sample, which leaves EFC unchanged, and a
\* discharging sample whose contribution is cut down to q99
C22_Witness ==
  /\ SohReturned
  /\ soh_out.source \in {"charge_counter", "current_avg"}
  /\ \E i, j \in 2..Len(soh_out.df) :
       /\ ~DeltaQUndefined(i)
       /\ RGt(SohDeltaQ(i), R(0))
       /\ soh_out.discharge_mAh[i] = R(0)
       /\ soh_out.EFC[i] = soh_out.EFC[i - 1]
       /\ ~DeltaQUndefined(j)
       /\ RLt(SohDeltaQ(j), R(0))
       /\ RGt(soh_out.discharge_mAh[j], R(0))
       /\ RLt(soh_out.discharge_mAh[j], RNeg(SohDeltaQ(j)))
       /\ RGt(soh_out.EFC[j], soh_out.EFC[j - 1])

\* the charge that entered from the first sample up to each row, in mAh: the
\* running sum of current_avg (A) x delta_t (s) / 3600, missing currents
\* skipped
IntegratedCharge ==
  CumSum(AsSeq([i \in 1..Len(soh_out.df) |->
    RMul(RDiv(RMul(RDiv(SohCurrent[i], R(1000000)), soh_out.delta_t_s[i]),
              R(3600)), R(1000))]))

(* C23: on the integrated-current path Q starts at 0: the first sample has *)
(* Q = 0 and every later Q is the charge integrated since the first        *)
(* sample.                                                                 *)
C23_IntegratedChargeFromZero ==
  (SohReturned /\ soh_out.source = "current_avg"
     /\ \A i \in 1..Len(soh_out.df) : NotNa(SohCurrent[i])) =>
    /\ soh_out.Q_mAh[1] = R(0)
    /\ soh_out.Q_mAh = IntegratedCharge

-----------------------------------------------------------------------------
(* Specification of add_aging_features: one call on a table of up to       *)
(* MaxAgingLen rows of two devices, with or without the optional columns.  *)

MaxAgingLen == 3

AgingBaseColumns == {"device_id", "created_at", "SoH_filled", "EFC"}
\* the throughput columns make_lstm_features merges in are
\* throughput_total_bps and throughput_total_mbps (lines 57-58)
AgingOptionalColumns ==
  {"batt_temp_c", "throughput_total_mbps", "throughput_total_gb",
   "energy_per_bit_avg_J"}
\* tables with the base columns, and the table without SoH_filled
AgingColumnSets ==
  {AgingBaseColumns \cup opt : opt \in SUBSET AgingOptionalColumns}
    \cup {(AgingBaseColumns \ {"SoH_filled"}) \cup AgingOptionalColumns}

SohFilledVals == {NaN, Rat(4, 5), R(1)}

\* row i: the throughput branch has no value on the first row (left merge)
AgingRow(cs, i, d, soh) ==
  [device_id |-> d, created_at |-> R(600 * i),
   SoH_filled |-> IF "SoH_filled" \in cs THEN soh ELSE NaN,
   EFC |-> Rat(i, 10),
   batt_temp_c |-> IF "batt_temp_c" \in cs THEN R(28 + 2 * i) ELSE NaN,
   throughput_total_mbps |->
     IF "throughput_total_mbps" \in cs /\ i > 1 THEN R(3 * i) ELSE NaN,
   throughput_total_gb |->
     IF "throughput_total_gb" \in cs /\ i > 1 THEN R(3 * i) ELSE NaN,
   energy_per_bit_avg_J |->
     Sci(IF "energy_per_bit_avg_J" \in cs /\ i > 1 THEN R(2 * i) ELSE NaN, -9)]

InitAging ==
  /\ pc = "call"
  /\ \E n \in 1..MaxAgingLen, cs \in AgingColumnSets :
       \E d \in [1..n -> SohDevices], soh \in [1..n -> SohFilledVals] :
         aging_in = [columns |-> cs,
                     rows |-> AsSeq([i \in 1..n |-> AgingRow(cs, i, d[i], soh[i])])]
  /\ aging_out = NotCalled
  /\ IdleExcept("aging")

CallAging ==
  /\ pc = "call"
  /\ aging_out' = add_aging_features(aging_in, WIN_FAST, WIN_SLOW)
  /\ pc' = "return"
  /\ UNCHANGED aging_in
  /\ UnchangedExcept("aging")

NextAging == CallAging

SpecAging == InitAging /\ [][NextAging]_vars

-----------------------------------------------------------------------------
(* Properties of add_aging_features *)

AgingReturned == pc = "return" /\ aging_in # NotCalled /\ aging_out.ok

\* the rows of device d in the returned table
AgingRowsOf(d) == RowsOfDevice(aging_out.rows, d)

\* column ema of the returned table is the fast EMA of column c, device by
\* device
IsFastEma(ema, c) ==
  \A d \in SohDevices :
    Col(AgingRowsOf(d), ema) = ewm_mean(Col(AgingRowsOf(d), c), 6)

IsZero(ema) == \A i \in 1..Len(aging_out.rows) : aging_out.rows[i][ema] = R(0)

(* C24: when the table carries the pipeline's throughput column, tp_ema is *)
(* the fast EMA of the device's throughput, and when it carries            *)
(* energy_per_bit_avg_J, epb_ema is its fast EMA; temp_ema is the fast EMA *)
(* of the temperature when that is present; each is the constant 0 only    *)
(* when its quantity is absent from the table.                             *)
C24_EmaWhenPresent ==
  AgingReturned =>
    /\ IF "throughput_total_gb" \in aging_in.columns
         THEN IsFastEma("tp_ema", "throughput_total_gb")
       ELSE IF "throughput_total_mbps" \in aging_in.columns
         THEN IsFastEma("tp_ema", "throughput_total_mbps")
       ELSE IsZero("tp_ema")
    /\ IF "energy_per_bit_avg_J" \in aging_in.columns
         THEN \A d \in SohDevices :
                Col(AgingRowsOf(d), "epb_ema")
                  = ewm_mean_sci(Col(AgingRowsOf(d), "energy_per_bit_avg_J"), 6)
         ELSE \A i \in 1..Len(aging_out.rows) : aging_out.rows[i].epb_ema.m = R(0)
    /\ IF "batt_temp_c" \in aging_in.columns
         THEN IsFastEma("temp_ema", "batt_temp_c")
         ELSE IsZero("temp_ema") /\ IsZero("temp_max_win")

-----------------------------------------------------------------------------
(* Specification of make_lstm_features: one call on a raw frame of up to   *)
(* MaxFeatLen samples of two devices with every telemetry column.          *)

MaxFeatLen == 3

FeatChargeVals == {R(3500000), R(5000000)}
FeatLevelVals == {R(50), R(100)}

RawRow(i, d, cc, lvl) ==
  [index |-> i, device_id |-> d, created_at |-> R(600 * i),
   charge_counter_uah |-> cc, current_avg_ua |-> R(500000), battery_level |-> lvl,
   batt_voltage_mv |-> BotVoltage(d), batt_temp_c |-> R(30),
   tx_total_bytes |-> R(1000 * i), rx_total_bytes |-> R(250 * i)]

InitFeat ==
  /\ pc = "call"
  /\ \E n \in 1..MaxFeatLen :
       \E d \in [1..n -> SohDevices], cc \in [1..n -> FeatChargeVals],
          lvl \in [1..n -> FeatLevelVals] :
         feat_in = [df |-> AsSeq([i \in 1..n |-> RawRow(i, d[i], cc[i], lvl[i])])]
  /\ feat_out = NotCalled
  /\ IdleExcept("features")

CallFeat ==
  /\ pc = "call"
  /\ feat_out' = make_lstm_features(feat_in.df)
  /\ pc' = "return"
  /\ UNCHANGED feat_in
  /\ UnchangedExcept("features")

NextFeat == CallFeat

SpecFeat == InitFeat /\ [][NextFeat]_vars

\* SoH_smooth where defined and SoH otherwise, filled forward and backward
\* inside the device the rows belong to
SoHFilledPerDevice(rows) ==
  BFill(FFill(AsSeq([i \in 1..Len(rows) |->
    IF NotNa(rows[i].SoH_smooth) THEN rows[i].SoH_smooth ELSE rows[i].SoH])))

(* C27: for a non-empty raw table with the telemetry columns the result is *)
(* present: one row per sample, keyed by (device_id, timestamp);           *)
(* SoH_filled is SoH_smooth where defined and SoH otherwise, filled        *)
(* forward and backward per device; soh_ema_fast and soh_ema_slow are its  *)
(* EMAs, soh_trend is their difference, and efc_delta is 0 on the first    *)
(* row of each device.                                                     *)
C27_FeatureTablePresent ==
  (pc = "return" /\ feat_in # NotCalled) =>
    /\ feat_out.ok
    /\ Len(feat_out.rows) = Len(feat_in.df)
    /\ \A i \in 1..Len(feat_in.df) : \E j \in 1..Len(feat_out.rows) :
         /\ feat_out.rows[j].device_id = feat_in.df[i].device_id
         /\ feat_out.rows[j].created_at = feat_in.df[i].created_at
    /\ \A d \in SohDevices :
         Let(RowsOfDevice(feat_out.rows, d), LAMBDA g :
           /\ Col(g, "SoH_filled") = SoHFilledPerDevice(g)
           /\ Col(g, "soh_ema_fast") = ewm_mean(Col(g, "SoH_filled"), 6)
           /\ Col(g, "soh_ema_slow") = ewm_mean(Col(g, "SoH_filled"), 48)
           /\ \A i \in 1..Len(g) :
                /\ g[i].soh_trend = RSub(g[i].soh_ema_fast, g[i].soh_ema_slow)
                /\ i = 1 => g[i].efc_delta = R(0))

-----------------------------------------------------------------------------
(* Specification of the calls with an invalid configuration: build_windows *)
(* with a window size of 0 or less, and calculate_soh_cycles with a        *)
(* default capacity of 0.                                                  *)

MaxConfigLen == 2
InvalidWinSizes == {-1, 0}

InitConfig ==
  /\ pc = "call"
  /\ \/ /\ \E cs \in WinColumnSets, n \in 0..MaxWinLen, w \in InvalidWinSizes :
             \E k \in 0..n, temp \in [1..n -> TempChoices] :
               win_in = WinArgs(WinTable(cs, n, k, temp), w)
        /\ win_out = NotCalled
        /\ IdleExcept("windows")
     \/ /\ \E n \in 1..MaxConfigLen, d \in SohDevices :
             \E cc \in [1..n -> ChargeVals], lvl \in [1..n -> LevelVals] :
               soh_in = [SohArgs(ChargeSeries(n, d, cc, lvl)) EXCEPT !.default_C0 = 0]
        /\ soh_out = NotCalled
        /\ IdleExcept("soh")

CallWinConfig == win_in # NotCalled /\ CallWin

CallSohConfig == soh_in # NotCalled /\ CallSoh

NextConfig == CallWinConfig \/ CallSohConfig

SpecConfig == InitConfig /\ [][NextConfig]_vars

\* the call that reaches the default capacity: no nominal capacity for the
\* device and no capacity estimate in the data
UsesDefaultC0 ==
  /\ pc = "return" /\ soh_in # NotCalled
  /\ soh_in.default_C0 = 0
  /\ soh_in.df[1].device_id = UnlistedDevice
  /\ \A i \in 1..Len(soh_in.df) : soh_in.df[i].battery_level = R(50)

(* C25: an invalid configuration is met with an error at once: a window    *)
(* size of 0 or less gives no windows at all (neither empty nor wrapped    *)
(* ones), and a default capacity of 0 that the estimator has to use gives  *)
(* no SoH table computed by a division by zero.                            *)
C25_InvalidConfigRejected ==
  /\ (pc = "return" /\ win_in # NotCalled /\ win_in.win_size <= 0) => ~win_out.ok
  /\ UsesDefaultC0 => soh_out.source = "error"

-----------------------------------------------------------------------------
(* Specification of safe_float and of the two responses built with it: one *)
(* call of safe_float on a value and a default, or one PredictionResponse, *)
(* or one entry of the battery-metrics response.                           *)

\* the values handed to safe_float, each with what it is (kind) and, for a
\* number, its value
SafeFloatCases ==
  {[x |-> PyNone, kind |-> "null", num |-> NaN],
   [x |-> PyFloat(NaN), kind |-> "nan", num |-> NaN],
   [x |-> PyFloat(PInf), kind |-> "inf", num |-> NaN],
   [x |-> PyFloat(NInf), kind |-> "inf", num |-> NaN],
   [x |-> PyFloat(R(0)), kind |-> "number", num |-> R(0)],
   [x |-> PyFloat(Rat(-3, 2)), kind |-> "number", num |-> Rat(-3, 2)],
   [x |-> PyFloat(Rat(389, 4)), kind |-> "number", num |-> Rat(389, 4)],
   [x |-> PyInt(7), kind |-> "number", num |-> R(7)],
   [x |-> PyInt(-2), kind |-> "number", num |-> R(-2)],
   [x |-> PyHugeInt, kind |-> "not convertible", num |-> NaN],
   [x |-> PyBool(TRUE), kind |-> "number", num |-> R(1)],
   [x |-> PyStr("3.5"), kind |-> "number", num |-> Rat(7, 2)],
   [x |-> PyStr(" 12 "), kind |-> "number", num |-> R(12)],
   [x |-> PyStr("-0.25"), kind |-> "number", num |-> Rat(-1, 4)],
   [x |-> PyStr("nan"), kind |-> "nan", num |-> NaN],
   [x |-> PyStr("NaN"), kind |-> "nan", num |-> NaN],
   [x |-> PyStr("inf"), kind |-> "inf", num |-> NaN],
   [x |-> PyStr("-Infinity"), kind |-> "inf", num |-> NaN],
   [x |-> PyStr("1e400"), kind |-> "inf", num |-> NaN],
   [x |-> PyStr("abc"), kind |-> "not convertible", num |-> NaN],
   [x |-> PyStr(""), kind |-> "not convertible", num |-> NaN],
   [x |-> PyStr("1,5"), kind |-> "not convertible", num |-> NaN],
   [x |-> PyList, kind |-> "not convertible", num |-> NaN]}

SafeFloatDefaults == {PyNone, PyFloat(R(0)), PyFloat(R(-1))}

\* what a column of a computed table can hold
ColumnValues ==
  {PyFloat(NaN), PyFloat(PInf), PyFloat(NInf), PyFloat(R(0)), PyFloat(Rat(389, 4))}

LatestColumnSets == SUBSET {"delta_Q_mAh", "discharge_mAh", "EFC"}

InitSafeFloat ==
  /\ pc = "call"
  /\ \/ \E c \in SafeFloatCases, d \in SafeFloatDefaults :
          sf_in = [op |-> "safe_float", x |-> c.x, default |-> d,
                   kind |-> c.kind, num |-> c.num]
     \/ \E last \in ColumnValues, rul \in ColumnValues,
           met \in ColumnValues \cup {PyNone} :
          sf_in = [op |-> "prediction", soh_pred_smooth_last |-> last,
                   soh_t |-> rul, efc_val |-> met,
                   rul_dict |-> [rul_cycles |-> rul, rul_months |-> rul,
                                 rul_hours |-> rul],
                   metrics |-> [mae_pct |-> met, rmse_pct |-> met, r2_soh |-> last]]
     \/ \E q \in ColumnValues, soh \in ColumnValues, v \in ColumnValues,
           cs \in LatestColumnSets :
          sf_in = [op |-> "battery_metrics",
                   row |-> [Q_mAh |-> q, Ct_mAh |-> v, soh_pct |-> soh],
                   latest |-> [c \in cs |-> IF c = "EFC" THEN v ELSE q]]
  /\ sf_out = NotCalled
  /\ IdleExcept("safe_float")

CallSafeFloat ==
  /\ pc = "call" /\ sf_in.op = "safe_float"
  /\ sf_out' = [value |-> safe_float(sf_in.x, sf_in.default)]
  /\ pc' = "return"
  /\ UNCHANGED sf_in
  /\ UnchangedExcept("safe_float")

CallPrediction ==
  /\ pc = "call" /\ sf_in.op = "prediction"
  /\ sf_out' = prediction_fields(sf_in.soh_pred_smooth_last, sf_in.soh_t,
                 sf_in.efc_val, sf_in.rul_dict, sf_in.metrics)
  /\ pc' = "return"
  /\ UNCHANGED sf_in
  /\ UnchangedExcept("safe_float")

CallBatteryMetrics ==
  /\ pc = "call" /\ sf_in.op = "battery_metrics"
  /\ sf_out' = battery_metrics_fields(sf_in.row, sf_in.latest)
  /\ pc' = "return"
  /\ UNCHANGED sf_in
  /\ UnchangedExcept("safe_float")

NextSafeFloat == CallSafeFloat \/ CallPrediction \/ CallBatteryMetrics

SpecSafeFloat == InitSafeFloat /\ [][NextSafeFloat]_vars

SafeFloatReturned == pc = "return" /\ sf_in # NotCalled

\* null, or a float that is neither NaN nor infinite
NullOrFinite(y) == y = PyNone \/ (y.t = "float" /\ IsFinite(y.v))

(* C26: safe_float returns the default d when x is null, NaN, +inf, -inf   *)
(* or not convertible to a number, and the numeric value of x otherwise;   *)
(* with a default that is null or finite it never lets NaN or an infinity  *)
(* through, and every numeric field of the prediction and battery-metrics  *)
(* responses is such a value.                                              *)
C26_SafeFloatFilters ==
  SafeFloatReturned =>
    IF sf_in.op = "safe_float"
    THEN /\ sf_in.kind = "number" => sf_out.value = PyFloat(sf_in.num)
         /\ sf_in.kind # "number" => sf_out.value = sf_in.default
         /\ NullOrFinite(sf_out.value)
    ELSE \A f \in DOMAIN sf_out : NullOrFinite(sf_out[f])

\* an infinity was handed in and the default came back; a response was built
\* from a NaN and an infinity
C26_Witness ==
  /\ SafeFloatReturned
  /\ \/ sf_in.op = "safe_float" /\ sf_in.x = PyFloat(NInf)
        /\ sf_in.default = PyNone /\ sf_out.value = PyNone
     \/ sf_in.op = "battery_metrics" /\ sf_in.row.Q_mAh = PyFloat(PInf)
        /\ sf_in.row.soh_pct = PyFloat(NaN) /\ sf_out.Q_mAh = PyFloat(R(0))

-----------------------------------------------------------------------------
(* Properties of the loop over the full-charge blocks *)

\* the ids of the blocks with at least one charge value
BlocksWithValue ==
  {b \in 1..Len(soh_out.df) :
     BlockRows(soh_out.Q_mAh, soh_out.full_block_id, b) # {}}

\* the row a block writes its candidate to
CandidateRowOf(b) ==
  BlockIdxMax(soh_out.Q_mAh, BlockRows(soh_out.Q_mAh, soh_out.full_block_id, b))

\* the ids 1..n in rising and in falling order
Rising(n) == AsSeq([i \in 1..n |-> i])
Falling(n) == AsSeq([i \in 1..n |-> n + 1 - i])

\* the candidates after the loop has visited the blocks in the given order
LoopCandidates(bids) ==
  Ct_block_loop(soh_out.Q_mAh, soh_out.full_block_id, bids, NaNs(Len(soh_out.df)))

(* C28: no two full-charge blocks write their candidate to the same row;   *)
(* before the forward fill the rows holding a candidate are as many as the *)
(* blocks with at least one charge value; and the candidates are the same  *)
(* in whichever order the blocks are visited.                              *)
C28_BlocksWriteDistinctRows ==
  SohReturned =>
    /\ \A b1, b2 \in BlocksWithValue :
         b1 # b2 => CandidateRowOf(b1) # CandidateRowOf(b2)
    /\ Let(LoopCandidates(Rising(Len(soh_out.df))), LAMBDA cand :
         /\ Cardinality({i \in 1..Len(cand) : NotNa(cand[i])})
              = Cardinality(BlocksWithValue)
         /\ cand = LoopCandidates(Falling(Len(soh_out.df)))
         /\ cand = SohCandidates)

\* two blocks with a charge value each, separated by a sample below the
\* full-charge level
C28_Witness ==
  /\ SohReturned
  /\ Cardinality(BlocksWithValue) = 2
  /\ \E i, j \in 1..Len(soh_out.df) :
       i # j /\ NotNa(SohCandidates[i]) /\ NotNa(SohCandidates[j])


\* the device of row i (from 0) of the input table
DeviceOfRow(i) == win_in.df_feat.rows[i + 1].device_id

\* the devices of the input table and the number of rows of each
WinDevicesPresent == {DeviceOfRow(i) : i \in 0..(WinN - 1)}
RowsOfWinDevice(d) == Cardinality({i \in 0..(WinN - 1) : DeviceOfRow(i) = d})

WindowsPerDevice(d) == Max2(0, RowsOfWinDevice(d) - win_in.win_size)

(* C29: windows never mix devices: the rows of every window and its target *)
(* row belong to one device, and the number of windows is the sum over the *)
(* devices of max(0, n_device - win_size).                                 *)
C29_WindowsPerDevice ==
  (WinReturned /\ HasSoHTrue(win_in.df_feat) /\ win_in.win_size >= 1) =>
    /\ win_out.ok
    /\ \A j \in 1..Len(win_out.X) :
         LET i == win_in.win_size + j - 1
         IN \A p \in (i - win_in.win_size)..(i - 1) : DeviceOfRow(p) = DeviceOfRow(i)
    /\ Len(win_out.X) = WindowsPerDevice(WinDevices[1]) + WindowsPerDevice(WinDevices[2])

-----------------------------------------------------------------------------
(* The scale of the Hampel filter *)

HampelQ == hampel_in.s
HampelN == Len(hampel_in.s)

\* the median of the values of sample i's window, NaN for fewer than 3 values
OwnMedian(i) ==
  WindowMedian(Valid(HampelQ, Max2(1, i - hampel_in.k), Min2(HampelN, i + hampel_in.k)),
               HampelMinPeriods)

\* |x_j - m|, NaN when either is missing
DeviationFrom(j, m) == RAbs(RSub(HampelQ[j], m))

\* the median of the deviations dev[j], j in the window of sample i, NaN for
\* fewer than 3 of them
MedianOverWindow(i, dev) ==
  WindowMedian(Valid(dev, Max2(1, i - hampel_in.k), Min2(HampelN, i + hampel_in.k)),
               HampelMinPeriods)

\* the deviations of the window's samples from the median of sample i's window
MadAroundOwnMedian(i) ==
  MedianOverWindow(i, AsSeq([j \in 1..HampelN |-> DeviationFrom(j, OwnMedian(i))]))

\* the deviations of the window's samples, each from the median of its own
\* window
MadOfRollingDeviations(i) ==
  MedianOverWindow(i, AsSeq([j \in 1..HampelN |-> DeviationFrom(j, OwnMedian(j))]))

Marked(i) == NotNa(HampelQ[i]) /\ IsNaN(hampel_out[i])

ExceedsScale(i, mad) ==
  RGt(DeviationFrom(i, OwnMedian(i)), RMul(RMul(hampel_in.nsigma, MadScale), mad))

(* C30 as stated: mad_i is the median over the samples x_j of i's window   *)
(* of |x_j - med_i|, med_i being the median of that same window, and       *)
(* sample i is marked exactly when |x_i - med_i| > nsigma x 1.4826 x mad_i.*)
C30_MadAroundWindowMedian ==
  HampelReturned =>
    \A i \in 1..HampelN : Marked(i) <=> ExceedsScale(i, MadAroundOwnMedian(i))

(* C30: mad_i is the median over the samples x_j of i's window of          *)
(* |x_j - med_j|, med_j being the median of the window of sample j (a      *)
(* sample without median does not count, and fewer than 3 deviations give  *)
(* no scale); sample i is marked exactly when                              *)
(* |x_i - med_i| > nsigma x 1.4826 x mad_i, so with mad_i = 0 a sample     *)
(* differing from med_i is marked and one equal to med_i is kept.          *)
C30_MadOfRollingDeviations ==
  HampelReturned =>
    \A i \in 1..HampelN :
      /\ Marked(i) <=> ExceedsScale(i, MadOfRollingDeviations(i))
      /\ MadOfRollingDeviations(i) = R(0) =>
           (Marked(i) <=> (NotNa(HampelQ[i]) /\ NotNa(OwnMedian(i))
                           /\ HampelQ[i] # OwnMedian(i)))

\* a sample on which the two scales decide differently
C30_Witness ==
  /\ HampelReturned
  /\ \E i \in 1..HampelN :
       ExceedsScale(i, MadOfRollingDeviations(i)) # ExceedsScale(i, MadAroundOwnMedian(i))
=============================================================================
